---------------------------- MODULE Spec2Model ----------------------------
(***************************************************************************)
(* openEHR2FHIRquestionnaire: the forward compiler (web template -> FHIR   *)
(* Questionnaire, webtemplate_to_fhir_questionnaire_json.py) and the       *)
(* reverse decompiler (QuestionnaireResponse / Bundle -> openEHR FLAT      *)
(* composition, fill_composition_from_response.py).                        *)
(*                                                                         *)
(* Representation.                                                         *)
(*  - A Python str that the code concatenates, joins or splits (ids,       *)
(*    linkIds, flat paths, composition keys, locale names) is a sequence   *)
(*    of atoms: the separators "/", ":", "|", "_", " ", "$", "&" are atoms *)
(*    of their own,                                                        *)
(*    every other atom is a run of characters holding no separator.        *)
(*    "a/x" is <<"a", "/", "x">>.  str.join, str.split and the f-strings   *)
(*    are computed on these sequences.                                     *)
(*    The same holds for the other str values a record carries (answer    *)
(*    values, canonical URLs, author names): <<"mmHg">> is "mmHg".  A      *)
(*    number held in such a place is the atom of its digits.  None in such *)
(*    a place is NoneValue, an atom no input holds.                        *)
(*  - A word of a fixed vocabulary that the code only compares (a          *)
(*    resourceType, an rmType, an item type, a dict key) is a TLA+ string. *)
(*  - A Python dict is a function whose DOMAIN is the set of keys present. *)
(*  - A Python list is a sequence.                                         *)
(***************************************************************************)
EXTENDS Integers, Sequences, FiniteSets, TLC

VARIABLES
    \* ---- reverse decompiler: process_questionnaire_bundle ----
    bundle_json,        \* the argument: a QuestionnaireResponse or a Bundle
    ctx_setting,        \* the argument ctx_setting
    ctx_territory,      \* the argument ctx_territory
    server,             \* environment: canonical URL -> Questionnaire (the URLs that answer)
    default_locale,     \* environment: what locale.getdefaultlocale() returns
    pc,                 \* position in process_questionnaire_bundle
    idx,                \* number of entries of the for loop already consumed
    practitioner_id,    \* the local practitioner_id (Unbound until first assigned)
    encounter_id,       \* the local encounter_id (Unbound until first assigned)
    compositions,       \* the local list compositions
    error,              \* the exception that left the function, or "none"
    item_calls,         \* history: the process_item calls of the latest conversion
    answer_calls,       \* history: the process_answer calls of the latest conversion
    \* ---- forward compiler: convert_webtemplate_to_fhir_questionnaire_json ----
    web_template,       \* the JSON read from input_file_path
    preferred_lang,     \* the argument preferred_lang
    fhir_version,       \* the argument fhir_version
    create_help_buttons,\* the argument create_help_buttons
    fpc,                \* position in convert_webtemplate_to_fhir_questionnaire_json
    questionnaire,      \* the local dict questionnaire being built, or NoDocument
    child_idx,          \* number of children of the root already processed
    output_file,        \* the document last written to an output_file_path, or NoDocument
    cardinality_map,    \* the local OrderedDict cardinality_map (list of entries)
    ferror,             \* the exception that left the function, or "none"
    \* ---- the loaded module webtemplate_to_fhir_questionnaire_json ----
    default_cardinality_map, \* the OrderedDict bound at definition time as the
                        \* default of process_webtemplate_node's cardinality_map
    node_call,          \* the arguments of the latest direct process_webtemplate_node call
    node_result,        \* the item that call returned, or NoItem
    calls_made          \* number of calls begun since the first state of the session

rev_vars == <<bundle_json, ctx_setting, ctx_territory, server, default_locale, pc, idx,
              practitioner_id, encounter_id, compositions, error, item_calls, answer_calls>>
fwd_vars == <<web_template, preferred_lang, fhir_version, create_help_buttons, fpc,
              questionnaire, child_idx, output_file, cardinality_map, ferror>>
mod_vars == <<default_cardinality_map, node_call, node_result, calls_made>>
vars == <<rev_vars, fwd_vars, mod_vars>>

----------------------------------------------------------------------------
(* Bounds of the model. *)

\* longest item list of a response (top level and nested)
MaxItems == 3
\* most answers one response item carries
MaxAnswers == 2
\* most entries of a Bundle
MaxEntries == 3
\* most children of one template node
MaxChildren == 2
\* longest chain of nested groups below the root of a template
MaxDepth == 2
MaxOptions == 2

----------------------------------------------------------------------------
(* Python values. *)

NoneValue == <<"<None>">>
Unbound == <<"<unbound>">>
NoDocument == [none |-> TRUE]

\* Python truthiness of a str-or-None value
Truthy(v) == v # NoneValue /\ v # <<>>

\* dict.get(key, default)
Get(d, key, default) == IF key \in DOMAIN d THEN d[key] ELSE default

\* d[key] = value
Put(d, key, value) == [k \in (DOMAIN d) \cup {key} |-> IF k = key THEN value ELSE d[k]]

EmptyDict == [k \in {} |-> NoneValue]

\* str(n) for a non-negative int, as atoms (one atom per decimal digit)
Digits == <<"0", "1", "2", "3", "4", "5", "6", "7", "8", "9">>
RECURSIVE DecStr(_)
DecStr(n) == IF n < 10 THEN <<Digits[n + 1]>>
             ELSE DecStr(n \div 10) \o <<Digits[(n % 10) + 1]>>

\* s.split(sep): the list of the maximal runs between occurrences of sep
RECURSIVE SplitFrom(_, _, _, _)
SplitFrom(s, sep, n, cur) ==
    IF n > Len(s) THEN <<cur>>
    ELSE IF s[n] = sep THEN <<cur>> \o SplitFrom(s, sep, n + 1, <<>>)
    ELSE SplitFrom(s, sep, n + 1, Append(cur, s[n]))
Split(s, sep) == SplitFrom(s, sep, 1, <<>>)

\* sep.join(parts)
RECURSIVE Join(_, _)
Join(parts, sep) ==
    IF Len(parts) = 0 THEN <<>>
    ELSE IF Len(parts) = 1 THEN parts[1]
    ELSE parts[1] \o <<sep>> \o Join(Tail(parts), sep)

\* all sequences over S of length lo..hi
SeqsOf(S, lo, hi) == UNION {[1..n -> S] : n \in lo..hi}


----------------------------------------------------------------------------
(* fill_composition_from_response.py: convert_fhir_to_openehr_flat          *)

\* How one conversion raises or returns
Raised(exc) == [ok |-> FALSE, error |-> exc]

\* fetch_questionnaire_from_server: requests.get answers for the URLs of
\* DOMAIN srv; any requests.RequestException is re-raised as RuntimeError
FetchFails(srv, canonical_url) == canonical_url \notin DOMAIN srv

TemplateSystem == <<"http:", "/", "/", "example.org", "/", "openEHR", "/", "templates">>

\* extract_metadata_from_questionnaire: the value of the first identifier of
\* the template system, and the language (default "en")
RECURSIVE FirstTemplateId(_, _)
FirstTemplateId(identifiers, n) ==
    IF n > Len(identifiers) THEN NoneValue
    ELSE IF Get(identifiers[n], "system", NoneValue) = TemplateSystem
         THEN Get(identifiers[n], "value", NoneValue)
    ELSE FirstTemplateId(identifiers, n + 1)

ExtractMetadataFromQuestionnaire(fetched) ==
    [template_id |-> FirstTemplateId(Get(fetched, "identifier", <<>>), 1),
     language |-> Get(fetched, "language", <<"en">>)]

\* the key of a facet of a path: f"{path}|magnitude"
Facet(path, name) == path \o <<"|", name>>

\* a plausible slip: the precision left None when the quantity carries none
QuantityWritesNoDefault(path, quantity) ==
    << <<Facet(path, "magnitude"), Get(quantity, "value", NoneValue)>>,
       <<Facet(path, "unit"), Get(quantity, "unit", NoneValue)>>,
       <<Facet(path, "precision"), Get(quantity, "precision", NoneValue)>> >>

\* process_answer, lines 113-116: the assignments for a valueQuantity, in order
QuantityWrites(path, quantity) ==
    << <<Facet(path, "magnitude"), Get(quantity, "value", NoneValue)>>,
       <<Facet(path, "unit"), Get(quantity, "unit", NoneValue)>>,
       <<Facet(path, "precision"), Get(quantity, "precision", <<"0">>)>> >>

\* process_answer, lines 118-121: the assignments for a valueCoding, in order
CodingWrites(path, coding) ==
    << <<Facet(path, "value"), Get(coding, "display", NoneValue)>>,
       <<Facet(path, "code"), Get(coding, "code", NoneValue)>>,
       <<Facet(path, "terminology"), Get(coding, "system", <<"local">>)>> >>

\* a plausible slip: a reference written by its display
AnswerWritesReferenceDisplay(path, answer) ==
    IF "valueQuantity" \in DOMAIN answer THEN QuantityWrites(path, answer.valueQuantity)
    ELSE IF "valueCoding" \in DOMAIN answer THEN CodingWrites(path, answer.valueCoding)
    ELSE IF "valueString" \in DOMAIN answer THEN << <<path, answer.valueString>> >>
    ELSE IF "valueBoolean" \in DOMAIN answer THEN << <<path, answer.valueBoolean>> >>
    ELSE IF "valueInteger" \in DOMAIN answer THEN << <<path, answer.valueInteger>> >>
    ELSE IF "valueDecimal" \in DOMAIN answer THEN << <<path, answer.valueDecimal>> >>
    ELSE IF "valueDate" \in DOMAIN answer THEN << <<path, answer.valueDate>> >>
    ELSE IF "valueDateTime" \in DOMAIN answer THEN << <<path, answer.valueDateTime>> >>
    ELSE IF "valueTime" \in DOMAIN answer THEN << <<path, answer.valueTime>> >>
    ELSE IF "valueUri" \in DOMAIN answer THEN << <<path, answer.valueUri>> >>
    ELSE IF "valueReference" \in DOMAIN answer THEN
        << <<path, Get(answer.valueReference, "display", NoneValue)>> >>
    ELSE << >>


\* process_answer: the assignments composition[key] = value it makes, in order
AnswerWrites(path, answer) ==
    IF "valueQuantity" \in DOMAIN answer THEN QuantityWrites(path, answer.valueQuantity)
    ELSE IF "valueCoding" \in DOMAIN answer THEN CodingWrites(path, answer.valueCoding)
    ELSE IF "valueString" \in DOMAIN answer THEN << <<path, answer.valueString>> >>
    ELSE IF "valueBoolean" \in DOMAIN answer THEN << <<path, answer.valueBoolean>> >>
    ELSE IF "valueInteger" \in DOMAIN answer THEN << <<path, answer.valueInteger>> >>
    ELSE IF "valueDecimal" \in DOMAIN answer THEN << <<path, answer.valueDecimal>> >>
    ELSE IF "valueDate" \in DOMAIN answer THEN << <<path, answer.valueDate>> >>
    ELSE IF "valueDateTime" \in DOMAIN answer THEN << <<path, answer.valueDateTime>> >>
    ELSE IF "valueTime" \in DOMAIN answer THEN << <<path, answer.valueTime>> >>
    ELSE IF "valueUri" \in DOMAIN answer THEN << <<path, answer.valueUri>> >>
    ELSE IF "valueReference" \in DOMAIN answer THEN
        << <<path, Get(answer.valueReference, "reference", NoneValue)>> >>
    ELSE << >>

RECURSIVE ApplyWrites(_, _, _)
ApplyWrites(composition, writes, n) ==
    IF n > Len(writes) THEN composition
    ELSE ApplyWrites(Put(composition, writes[n][1], writes[n][2]), writes, n + 1)

\* The walk threads st = [composition, item_calls, answer_calls]: the dict the
\* closures write, and the history of the calls made.
ProcessAnswer(st, path, answer, item_path, n, j) ==
    LET writes == AnswerWrites(path, answer) IN
    [st EXCEPT !.composition = ApplyWrites(@, writes, 1),
               !.answer_calls = Append(@, [item_path |-> item_path, n |-> n, idx |-> j,
                                            path |-> path, answer |-> answer,
                                            writes |-> writes])]

\* a plausible slip: the answer index appended whenever there is an answer
FinalPathAlwaysIndexed(path, j, n) == IF n > 0 THEN path \o <<":">> \o DecStr(j) ELSE path

\* process_item, line 104: the path of answer idx of the len(answers) answers
FinalPath(path, j, n) == IF n > 1 THEN path \o <<":">> \o DecStr(j) ELSE path

\* a plausible slip: the index appended whether or not the linkId is repeated
ItemPathAlwaysIndexed(parent_path, link_id, index, k) ==
    LET parts == Split(link_id, "/")
        last_part == parts[Len(parts)]
    IN IF parent_path # <<>>
       THEN parent_path \o <<"/">> \o last_part \o <<":">> \o DecStr(index)
       ELSE link_id \o <<":">> \o DecStr(index)

\* a plausible slip: the whole linkId appended to the parent's path
ItemPathWholeLinkId(parent_path, link_id, index, k) ==
    IF k > 1
    THEN (IF parent_path # <<>>
          THEN parent_path \o <<"/">> \o link_id \o <<":">> \o DecStr(index)
          ELSE link_id \o <<":">> \o DecStr(index))
    ELSE (IF parent_path # <<>>
          THEN parent_path \o <<"/">> \o link_id
          ELSE link_id)


\* process_items, lines 87-91: the path of member index of a group of k items
ItemPath(parent_path, link_id, index, k) ==
    LET parts == Split(link_id, "/")
        last_part == parts[Len(parts)]
    IN IF k > 1
       THEN (IF parent_path # <<>>
             THEN parent_path \o <<"/">> \o last_part \o <<":">> \o DecStr(index)
             ELSE link_id \o <<":">> \o DecStr(index))
       ELSE (IF parent_path # <<>>
             THEN parent_path \o <<"/">> \o last_part
             ELSE link_id)

\* process_items, lines 75-77: grouped_by_link after the first n items, as the
\* list of its (key, positions of the items appended) in insertion order
RECURSIVE GroupedByLink(_, _)
GroupedByLink(items, n) ==
    IF n = 0 THEN <<>>
    ELSE LET groups == GroupedByLink(items, n - 1)
             link == items[n].linkId
             hit == {g \in 1..Len(groups) : groups[g].link_id = link}
         IN IF hit = {}
            THEN Append(groups, [link_id |-> link, members |-> <<n>>])
            ELSE [g \in 1..Len(groups) |->
                    IF g \in hit THEN [groups[g] EXCEPT !.members = Append(@, n)]
                    ELSE groups[g]]

RECURSIVE ProcessItems(_, _, _)
RECURSIVE ProcessItem(_, _, _)
RECURSIVE ProcessAnswers(_, _, _, _)
RECURSIVE ProcessGroups(_, _, _, _, _)
RECURSIVE ProcessMembers(_, _, _, _, _)

\* process_item, lines 101-105: the answers from the j-th on (j counts from 1)
ProcessAnswers(st, answers, path, j) ==
    IF j > Len(answers) THEN st
    ELSE ProcessAnswers(
             ProcessAnswer(st, FinalPath(path, j - 1, Len(answers)), answers[j],
                           path, Len(answers), j - 1),
             answers, path, j + 1)

ProcessItem(st, item, path) ==
    LET answered == IF "answer" \in DOMAIN item
                    THEN ProcessAnswers(st, item.answer, path, 1)
                    ELSE st
    IN IF "item" \in DOMAIN item
       THEN ProcessItems(answered, item.item, path)
       ELSE answered

\* process_items, lines 85-97: the members of one group from the m-th on
ProcessMembers(st, items, parent_path, group, m) ==
    IF m > Len(group.members) THEN st
    ELSE LET pos == group.members[m]
             path == ItemPath(parent_path, group.link_id, m - 1, Len(group.members))
             called == [st EXCEPT !.item_calls =
                           Append(@, [items |-> items, parent_path |-> parent_path,
                                      pos |-> pos, path |-> path])]
         IN ProcessMembers(ProcessItem(called, items[pos], path),
                           items, parent_path, group, m + 1)

\* process_items, line 84: the groups from the g-th on
ProcessGroups(st, items, parent_path, groups, g) ==
    IF g > Len(groups) THEN st
    ELSE ProcessGroups(ProcessMembers(st, items, parent_path, groups[g], 1),
                       items, parent_path, groups, g + 1)

ProcessItems(st, items, parent_path) ==
    ProcessGroups(st, items, parent_path, GroupedByLink(items, Len(items)), 1)

\* lines 53-56: the territory when the caller gave none.  loc is the pair
\* locale.getdefaultlocale() returns; '_' in None raises TypeError.
LocaleRaises(loc) == loc[1] = NoneValue
LocaleTerritory(loc) ==
    IF "_" \in {loc[1][n] : n \in 1..Len(loc[1])}
    THEN Split(loc[1], "_")[2]
    ELSE loc

ConvertFhirToOpenehrFlat(questionnaire_response, setting, territory, author, srv, loc) ==
    LET url == Get(questionnaire_response, "questionnaire", NoneValue) IN
    IF FetchFails(srv, url) THEN Raised("RuntimeError")
    ELSE IF ~Truthy(territory) /\ LocaleRaises(loc) THEN Raised("TypeError")
    ELSE
    LET metadata_questionnaire == ExtractMetadataFromQuestionnaire(srv[url])
        the_author == IF ~Truthy(author)
                      THEN Get(Get(questionnaire_response, "author", EmptyDict),
                               "display", <<"Unknown Author">>)
                      ELSE author
        the_territory == IF ~Truthy(territory) THEN LocaleTerritory(loc) ELSE territory
        ctx_values ==
            (<<"ctx", "/", "template", "_", "id">> :> metadata_questionnaire.template_id)
            @@ (<<"ctx", "/", "territory">> :> the_territory)
            @@ (<<"ctx", "/", "language">> :> metadata_questionnaire.language)
            @@ (<<"ctx", "/", "composer", "_", "name">> :> the_author)
        with_setting == IF Truthy(setting)
                        THEN Put(ctx_values, <<"ctx", "/", "setting">>, setting)
                        ELSE ctx_values
        st0 == [composition |-> with_setting, item_calls |-> <<>>, answer_calls |-> <<>>]
        st == IF "item" \in DOMAIN questionnaire_response
              THEN ProcessItems(st0, questionnaire_response.item, <<>>)
              ELSE st0
    IN [ok |-> TRUE, composition |-> st.composition,
        item_calls |-> st.item_calls, answer_calls |-> st.answer_calls]

----------------------------------------------------------------------------
(* fill_composition_from_response.py: process_questionnaire_bundle          *)

\* the record appended to compositions for one converted response
Tagged(questionnaire_response, composition) ==
    [questionnaire |-> Get(questionnaire_response, "questionnaire", <<>>),
     composition |-> composition]

\* the entries of the batch and the resource of the next one
Entries == Get(bundle_json, "entry", <<>>)
NextResource == Get(Entries[idx + 1], "resource", EmptyDict)
NextResourceType == Get(NextResource, "resourceType", "none")

\* lines 14-21: a single QuestionnaireResponse
ProcessSingle ==
    /\ pc = "call"
    /\ Get(bundle_json, "resourceType", "none") = "QuestionnaireResponse"
    /\ LET out == ConvertFhirToOpenehrFlat(bundle_json, ctx_setting, ctx_territory,
                                           NoneValue, server, default_locale)
       IN IF out.ok
          THEN /\ compositions' = Append(compositions, Tagged(bundle_json, out.composition))
               /\ item_calls' = out.item_calls
               /\ answer_calls' = out.answer_calls
               /\ pc' = "returned"
               /\ error' = error
          ELSE /\ pc' = "raised"
               /\ error' = out.error
               /\ UNCHANGED <<compositions, item_calls, answer_calls>>
    /\ UNCHANGED <<bundle_json, ctx_setting, ctx_territory, server, default_locale, idx,
                   practitioner_id, encounter_id>>
    /\ UNCHANGED <<fwd_vars, mod_vars>>

\* line 23: the for loop over bundle_json.get("entry", []) starts
EnterLoop ==
    /\ pc = "call"
    /\ Get(bundle_json, "resourceType", "none") # "QuestionnaireResponse"
    /\ pc' = "loop"
    /\ UNCHANGED <<bundle_json, ctx_setting, ctx_territory, server, default_locale, idx,
                   practitioner_id, encounter_id, compositions, error, item_calls,
                   answer_calls>>
    /\ UNCHANGED <<fwd_vars, mod_vars>>

\* lines 25-26
EntryPractitioner ==
    /\ pc = "loop" /\ idx < Len(Entries)
    /\ NextResourceType = "Practitioner"
    /\ practitioner_id' = Get(NextResource, "id", <<>>)
    /\ idx' = idx + 1
    /\ UNCHANGED <<bundle_json, ctx_setting, ctx_territory, server, default_locale, pc,
                   encounter_id, compositions, error, item_calls, answer_calls>>
    /\ UNCHANGED <<fwd_vars, mod_vars>>

\* lines 27-28
EntryEncounter ==
    /\ pc = "loop" /\ idx < Len(Entries)
    /\ NextResourceType = "Encounter"
    /\ encounter_id' = Get(NextResource, "id", <<>>)
    /\ idx' = idx + 1
    /\ UNCHANGED <<bundle_json, ctx_setting, ctx_territory, server, default_locale, pc,
                   practitioner_id, compositions, error, item_calls, answer_calls>>
    /\ UNCHANGED <<fwd_vars, mod_vars>>

\* lines 29-37: reading the local practitioner_id before any Practitioner entry
\* bound it raises UnboundLocalError; an exception of the conversion leaves the
\* loop and the function (there is no try in process_questionnaire_bundle)
EntryResponse ==
    /\ pc = "loop" /\ idx < Len(Entries)
    /\ NextResourceType = "QuestionnaireResponse"
    /\ LET qr == NextResource
           out == IF practitioner_id = Unbound THEN Raised("UnboundLocalError")
                  ELSE ConvertFhirToOpenehrFlat(qr, ctx_setting, ctx_territory,
                                                practitioner_id, server, default_locale)
       IN IF out.ok
          THEN /\ compositions' = Append(compositions, Tagged(qr, out.composition))
               /\ item_calls' = out.item_calls
               /\ answer_calls' = out.answer_calls
               /\ idx' = idx + 1
               /\ UNCHANGED <<pc, error>>
          ELSE /\ pc' = "raised"
               /\ error' = out.error
               /\ UNCHANGED <<compositions, item_calls, answer_calls, idx>>
    /\ UNCHANGED <<bundle_json, ctx_setting, ctx_territory, server, default_locale,
                   practitioner_id, encounter_id>>
    /\ UNCHANGED <<fwd_vars, mod_vars>>

\* lines 38-39
EntryOther ==
    /\ pc = "loop" /\ idx < Len(Entries)
    /\ NextResourceType \notin {"Practitioner", "Encounter", "QuestionnaireResponse"}
    /\ idx' = idx + 1
    /\ UNCHANGED <<bundle_json, ctx_setting, ctx_territory, server, default_locale, pc,
                   practitioner_id, encounter_id, compositions, error, item_calls,
                   answer_calls>>
    /\ UNCHANGED <<fwd_vars, mod_vars>>

\* line 41
ReturnCompositions ==
    /\ pc = "loop" /\ idx = Len(Entries)
    /\ pc' = "returned"
    /\ UNCHANGED <<bundle_json, ctx_setting, ctx_territory, server, default_locale, idx,
                   practitioner_id, encounter_id, compositions, error, item_calls,
                   answer_calls>>
    /\ UNCHANGED <<fwd_vars, mod_vars>>

----------------------------------------------------------------------------
(* Inputs of the reverse decompiler. *)

\* the questionnaires the server holds
Url1 == <<"http:", "/", "/", "srv", "/", "Questionnaire", "/", "q1">>
Url2 == <<"http:", "/", "/", "srv", "/", "Questionnaire", "/", "q2">>
Questionnaire1 ==
    [resourceType |-> "Questionnaire", language |-> <<"de">>,
     identifier |-> << [system |-> <<"urn:other">>, value |-> <<"x1">>],
                       [system |-> TemplateSystem, value |-> <<"tmpl.v1">>] >>]
Questionnaire2 == [resourceType |-> "Questionnaire"]
BothServe == (Url1 :> Questionnaire1) @@ (Url2 :> Questionnaire2)
OnlyFirstServes == (Url1 :> Questionnaire1)

LocaleUS == << <<"en", "_", "US">>, <<"UTF-8">> >>
LocaleNone == << NoneValue, NoneValue >>

\* valueString answers "s0", "s1", ...
StringAnswers(n) == [j \in 1..n |-> [valueString |-> <<"s">> \o DecStr(j - 1)]]

\* a response item: "answer" and "item" are present when not empty
MkItem(link_id, answers, items) ==
    [linkId |-> link_id]
    @@ (IF answers # <<>> THEN [answer |-> answers] ELSE EmptyDict)
    @@ (IF items # <<>> THEN [item |-> items] ELSE EmptyDict)

MkResponse(url, items) ==
    [resourceType |-> "QuestionnaireResponse", questionnaire |-> url]
    @@ (IF items # <<>> THEN [item |-> items] ELSE EmptyDict)

TopLinkIds == {<<"a">>, <<"v", "/", "bp">>}
NestedLinkIds == {<<"a", "/", "x">>, <<"b", "/", "x">>}

\* Responses for the walk: a top-level list of up to MaxItems items, the g-th
\* of them (none when g = 0) with the nested list kids, every item carrying n
\* string answers.
FlatResponses ==
    UNION { { MkResponse(Url1,
                  [p \in 1..Len(top) |->
                      MkItem(top[p], StringAnswers(n),
                             IF p = g
                             THEN [q \in 1..Len(kids) |->
                                      MkItem(kids[q], StringAnswers(n), <<>>)]
                             ELSE <<>>)]) :
                g \in 0..Len(top),
                kids \in SeqsOf(NestedLinkIds, 1, MaxItems),
                n \in {0, 1, MaxAnswers} } :
            top \in SeqsOf(TopLinkIds, 0, MaxItems) }

\* the answers of every kind process_answer dispatches on
AnswerKinds ==
    { [valueQuantity |-> [value |-> <<"120">>, unit |-> <<"mmHg">>]],
      [valueQuantity |-> [value |-> <<"7.5">>, unit |-> <<"kg">>, precision |-> <<"1">>]],
      [valueQuantity |-> [value |-> <<"3">>]],
      [valueCoding |-> [system |-> <<"http:", "/", "/", "snomed.info", "/", "sct">>,
                        code |-> <<"271649006">>, display |-> <<"Systolic">>]],
      [valueCoding |-> [code |-> <<"at0001">>, display |-> <<"Sitting">>]],
      [valueCoding |-> [code |-> <<"at0002">>]],
      [valueString |-> <<"text">>],
      [valueBoolean |-> <<"True">>],
      [valueInteger |-> <<"42">>],
      [valueDecimal |-> <<"1.5">>],
      [valueDate |-> <<"2025-01-31">>],
      [valueDateTime |-> <<"2025-01-31T10", ":", "00">>],
      [valueTime |-> <<"10", ":", "00">>],
      [valueUri |-> <<"urn", ":", "x">>],
      [valueReference |-> [reference |-> <<"Patient", "/", "1">>, display |-> <<"Pat">>]],
      [valueReference |-> [display |-> <<"Pat">>]] }

\* Responses for the answers: one item, or two siblings sharing the linkId,
\* each with the same 1..MaxAnswers answers of any kinds.
AnswerResponses ==
    { MkResponse(Url1, [p \in 1..k |-> MkItem(link_id, answers, <<>>)]) :
        k \in 1..2,
        link_id \in TopLinkIds,
        answers \in SeqsOf(AnswerKinds, 1, MaxAnswers) }

\* line 133: the module is loaded, the default of cardinality_map is evaluated
\* once, and no call has been made
ModuleLoaded ==
    /\ default_cardinality_map = <<>>
    /\ node_call = NoDocument
    /\ node_result = NoDocument
    /\ calls_made = 0

\* the forward compiler is not running
FwdIdle ==
    /\ web_template = NoDocument
    /\ preferred_lang = "en"
    /\ fhir_version = "R4"
    /\ create_help_buttons = TRUE
    /\ fpc = "idle"
    /\ questionnaire = NoDocument
    /\ child_idx = 0
    /\ output_file = NoDocument
    /\ cardinality_map = <<>>
    /\ ferror = "none"
    /\ ModuleLoaded

RevStart ==
    /\ pc = "call"
    /\ idx = 0
    /\ practitioner_id = Unbound
    /\ encounter_id = Unbound
    /\ compositions = <<>>
    /\ error = "none"
    /\ item_calls = <<>>
    /\ answer_calls = <<>>

InitFlat ==
    /\ bundle_json \in FlatResponses
    /\ ctx_setting = <<"238">>
    /\ ctx_territory = <<"CH">>
    /\ server = BothServe
    /\ default_locale = LocaleUS
    /\ RevStart
    /\ FwdIdle

InitAnswer ==
    /\ bundle_json \in AnswerResponses
    /\ ctx_setting = <<"238">>
    /\ ctx_territory = <<"CH">>
    /\ server = BothServe
    /\ default_locale = LocaleUS
    /\ RevStart
    /\ FwdIdle

NextSingle == ProcessSingle

\* the walk of one response, over FlatResponses
SpecFlat == InitFlat /\ [][NextSingle]_vars
\* the dispatch on the answer kind, over AnswerResponses
SpecAnswer == InitAnswer /\ [][NextSingle]_vars

----------------------------------------------------------------------------
(* Claims about convert_fhir_to_openehr_flat. *)

\* the flat record of the single response converted
SingleRecord == compositions[1].composition

\* the part of a linkId after its last "/" (all of it when it holds none)
LastSegment(link_id) ==
    LET slashes == {n \in 1..Len(link_id) : link_id[n] = "/"}
        cut == IF slashes = {} THEN 0
               ELSE CHOOSE n \in slashes : \A m \in slashes : m <= n
    IN SubSeq(link_id, cut + 1, Len(link_id))

\* the positions of the list that carry the linkId of position pos
Sharing(items, pos) == {q \in 1..Len(items) : items[q].linkId = items[pos].linkId}
\* how many of them come before pos
RankOf(items, pos) == Cardinality({q \in Sharing(items, pos) : q < pos})

\* the path of the item at pos without any index: the linkId at the top level,
\* below an item the parent's path, "/" and the local segment
Unsuffixed(call) ==
    IF call.parent_path = <<>> THEN call.items[call.pos].linkId
    ELSE call.parent_path \o <<"/">> \o LastSegment(call.items[call.pos].linkId)

\* the item lists the walk must visit: the top-level list, and the nested list
\* of every item visited, under that item's path
ListsVisited ==
    (IF "item" \in DOMAIN bundle_json
     THEN {[items |-> bundle_json.item, parent_path |-> <<>>]} ELSE {})
    \cup { [items |-> item_calls[c].items[item_calls[c].pos].item,
            parent_path |-> item_calls[c].path] :
           c \in {d \in 1..Len(item_calls) :
                    "item" \in DOMAIN item_calls[d].items[item_calls[d].pos]} }

C7_AnswersIndexed ==
    pc = "returned" =>
        /\ \A c \in 1..Len(item_calls) :
              LET item == item_calls[c].items[item_calls[c].pos]
                  path == item_calls[c].path
              IN "answer" \in DOMAIN item =>
                    \A j \in 1..Len(item.answer) :
                       LET key == IF Len(item.answer) >= 2
                                  THEN path \o <<":", Digits[j]>> ELSE path
                       IN /\ \E a \in 1..Len(answer_calls) :
                                /\ answer_calls[a].item_path = path
                                /\ answer_calls[a].idx = j - 1
                                /\ answer_calls[a].answer = item.answer[j]
                                /\ answer_calls[a].path = key
                          /\ key \in DOMAIN SingleRecord
                          /\ SingleRecord[key] = item.answer[j].valueString
        /\ \A a \in 1..Len(answer_calls) :
              answer_calls[a].path =
                  IF answer_calls[a].n >= 2
                  THEN answer_calls[a].item_path \o <<":", Digits[answer_calls[a].idx + 1]>>
                  ELSE answer_calls[a].item_path

\* C7 witness: the second of two answers of an item that is itself the second
\* of a repeated group has been written, under '<parent>/x:1:1'
C7_Witness ==
    /\ pc = "returned"
    /\ \E a \in 1..Len(answer_calls), c \in 1..Len(item_calls) :
          /\ item_calls[c].path = answer_calls[a].item_path
          /\ item_calls[c].parent_path # <<>>
          /\ Cardinality(Sharing(item_calls[c].items, item_calls[c].pos)) >= 2
          /\ RankOf(item_calls[c].items, item_calls[c].pos) = 1
          /\ answer_calls[a].n = 2
          /\ answer_calls[a].idx = 1
          /\ answer_calls[a].path = item_calls[c].parent_path \o <<"/", "x", ":", "1", ":", "1">>
          /\ answer_calls[a].path \in DOMAIN SingleRecord

\* the keys one process_answer call wrote
KeysWritten(call) == {call.writes[w][1] : w \in 1..Len(call.writes)}

\* C6: a valueQuantity answer at path p writes exactly p|magnitude, p|unit and
\* p|precision (precision "0" when the quantity has none), a valueCoding answer
\* exactly p|value (display), p|code and p|terminology (the system, "local"
\* when it has none); neither writes the bare key p, and the record holds the
\* values under these keys.
C6_FacetKeys ==
    pc = "returned" =>
        \A a \in 1..Len(answer_calls) :
            LET call == answer_calls[a]
                p == call.path
                quantityKeys == {p \o <<"|", "magnitude">>, p \o <<"|", "unit">>,
                                 p \o <<"|", "precision">>}
                codingKeys == {p \o <<"|", "value">>, p \o <<"|", "code">>,
                               p \o <<"|", "terminology">>}
            IN /\ "valueQuantity" \in DOMAIN call.answer =>
                    LET q == call.answer.valueQuantity IN
                    /\ KeysWritten(call) = quantityKeys
                    /\ Len(call.writes) = 3
                    /\ quantityKeys \subseteq DOMAIN SingleRecord
                    /\ p \notin DOMAIN SingleRecord
                    /\ SingleRecord[p \o <<"|", "magnitude">>] = q.value
                    /\ "unit" \in DOMAIN q => SingleRecord[p \o <<"|", "unit">>] = q.unit
                    /\ SingleRecord[p \o <<"|", "precision">>] =
                          (IF "precision" \in DOMAIN q THEN q.precision ELSE <<"0">>)
               /\ "valueCoding" \in DOMAIN call.answer =>
                    LET coding == call.answer.valueCoding IN
                    /\ KeysWritten(call) = codingKeys
                    /\ Len(call.writes) = 3
                    /\ codingKeys \subseteq DOMAIN SingleRecord
                    /\ p \notin DOMAIN SingleRecord
                    /\ "display" \in DOMAIN coding =>
                          SingleRecord[p \o <<"|", "value">>] = coding.display
                    /\ SingleRecord[p \o <<"|", "code">>] = coding.code
                    /\ SingleRecord[p \o <<"|", "terminology">>] =
                          (IF "system" \in DOMAIN coding THEN coding.system ELSE <<"local">>)

\* C6 witness: a quantity without precision and a coding without system have
\* been written as two answers of one item
C6_Witness ==
    /\ pc = "returned"
    /\ \E a, b \in 1..Len(answer_calls) :
          /\ "valueQuantity" \in DOMAIN answer_calls[a].answer
          /\ "precision" \notin DOMAIN answer_calls[a].answer.valueQuantity
          /\ SingleRecord[answer_calls[a].path \o <<"|", "precision">>] = <<"0">>
          /\ "valueCoding" \in DOMAIN answer_calls[b].answer
          /\ "system" \notin DOMAIN answer_calls[b].answer.valueCoding
          /\ SingleRecord[answer_calls[b].path \o <<"|", "terminology">>] = <<"local">>

----------------------------------------------------------------------------
(* webtemplate_to_fhir_questionnaire_json.py: the helpers                   *)

\* the item a node yields when it yields none
NoItem == [none |-> TRUE]

\* get_localized_name / get_localized_description
GetLocalizedName(node, lang) == Get(Get(node, "localizedNames", EmptyDict), lang, <<>>)
GetLocalizedDescription(node, lang) ==
    Get(Get(node, "localizedDescriptions", EmptyDict), lang, <<>>)

\* str.upper() on the rmType words the inputs hold
Upper(word) ==
    CASE word = "dv_coded_text" -> "DV_CODED_TEXT"
      [] word = "Dv_Quantity" -> "DV_QUANTITY"
      [] OTHER -> word

\* a plausible slip: any input with an option list taken as open
FindListOpenAnyList(inputs) ==
    \E n \in 1..Len(inputs) :
        /\ Get(inputs[n], "type", "none") \in {"TEXT", "CODED_TEXT"}
        /\ "list" \in DOMAIN inputs[n]

\* find_list_open
FindListOpen(inputs) ==
    \E n \in 1..Len(inputs) :
        /\ Get(inputs[n], "type", "none") \in {"TEXT", "CODED_TEXT"}
        /\ "list" \in DOMAIN inputs[n]
        /\ Get(inputs[n], "listOpen", FALSE) = TRUE

\* find_default_value: the defaultValue of the first input that has the key
RECURSIVE FindDefaultValue(_, _)
FindDefaultValue(inputs, n) ==
    IF n > Len(inputs) THEN NoneValue
    ELSE IF "defaultValue" \in DOMAIN inputs[n] THEN inputs[n].defaultValue
    ELSE FindDefaultValue(inputs, n + 1)

\* map_rmtype_to_fhir_type, lines 283-298: the direct mappings
RmtypeToFhir ==
    [COMPOSITION |-> "group", CLUSTER |-> "group", SECTION |-> "group",
     EVENT_CONTEXT |-> "group", DV_QUANTITY |-> "quantity", DV_DATE_TIME |-> "dateTime",
     DV_DATE |-> "date", DV_TIME |-> "time", DV_DURATION |-> "time",
     DV_COUNT |-> "integer", DV_BOOLEAN |-> "boolean", DV_MULTIMEDIA |-> "attachment",
     DV_URI |-> "uri", DV_EHR_URI |-> "reference"]

\* a plausible slip: the R5 names used for R4 as well
MapRmtypeToFhirTypeR5Only(node, version) ==
    LET rm_type == Upper(Get(node, "rmType", ""))
        inputs == Get(node, "inputs", <<>>)
    IN IF rm_type \in DOMAIN RmtypeToFhir THEN RmtypeToFhir[rm_type]
       ELSE IF rm_type = "DV_CODED_TEXT" /\ version \in {"R4", "R5"}
            THEN (IF FindListOpen(inputs) THEN "question" ELSE "coding")
       ELSE "text"

\* a plausible slip: the FHIR type string as the default kind
MapRmtypeToFhirTypeStringDefault(node, version) ==
    LET rm_type == Upper(Get(node, "rmType", ""))
        inputs == Get(node, "inputs", <<>>)
    IN IF rm_type \in DOMAIN RmtypeToFhir THEN RmtypeToFhir[rm_type]
       ELSE IF rm_type = "DV_CODED_TEXT" /\ version = "R4"
            THEN (IF FindListOpen(inputs) THEN "open-choice" ELSE "choice")
       ELSE IF rm_type = "DV_CODED_TEXT" /\ version = "R5"
            THEN (IF FindListOpen(inputs) THEN "question" ELSE "coding")
       ELSE IF rm_type = "DV_TEXT" THEN "text"
       ELSE "string"

\* map_rmtype_to_fhir_type
MapRmtypeToFhirType(node, version) ==
    LET rm_type == Upper(Get(node, "rmType", ""))
        inputs == Get(node, "inputs", <<>>)
    IN IF rm_type \in DOMAIN RmtypeToFhir THEN RmtypeToFhir[rm_type]
       ELSE IF rm_type = "DV_CODED_TEXT" /\ version = "R4"
            THEN (IF FindListOpen(inputs) THEN "open-choice" ELSE "choice")
       ELSE IF rm_type = "DV_CODED_TEXT" /\ version = "R5"
            THEN (IF FindListOpen(inputs) THEN "question" ELSE "coding")
       ELSE IF rm_type = "DV_TEXT" THEN "text"
       ELSE "text"

\* build_answer_options, lines 327-331: "fhir.org" in terminology, on atoms
\* (the host atoms that hold the characters fhir.org), and the text the regular
\* expression (http[s]?://[^$]+/ValueSet/[^&]+) matches first, or NoneValue
FhirOrgHosts == {"fhir.org", "tx.fhir.org", "build.fhir.org"}
MentionsFhirOrg(terminology) ==
    \E n \in 1..Len(terminology) : terminology[n] \in FhirOrgHosts
MaxOf(S) == CHOOSE n \in S : \A m \in S : m <= n
MinOf(S) == CHOOSE n \in S : \A m \in S : n <= m
ValueSetUrl(t) ==
    LET Marks(st) == {v \in (st + 4)..(Len(t) - 3) :
                        /\ t[v] = "/" /\ t[v + 1] = "ValueSet" /\ t[v + 2] = "/"
                        /\ \A n \in (st + 3)..(v - 1) : t[n] # "$"
                        /\ t[v + 3] # "&"}
        starts == {st \in 1..(Len(t) - 2) :
                     /\ t[st] \in {"http:", "https:"}
                     /\ t[st + 1] = "/" /\ t[st + 2] = "/"
                     /\ Marks(st) # {}}
    IN IF starts = {} THEN NoneValue
       ELSE LET st == MinOf(starts)
                v == MaxOf(Marks(st))
                e == MaxOf({n \in (v + 3)..Len(t) : \A m \in (v + 3)..n : t[m] # "&"})
            IN SubSeq(t, st, e)

\* build_answer_options, lines 339-344: the label of an option in the language.
\* A label is [text |-> str] or [dict |-> the list of its (language, str)].
OptionLabel(option, lang) ==
    LET label == Get(option, "label", [text |-> <<>>]) IN
    IF "dict" \in DOMAIN label
    THEN (IF \E n \in 1..Len(label.dict) : label.dict[n][1] = lang
          THEN label.dict[CHOOSE n \in 1..Len(label.dict) : label.dict[n][1] = lang][2]
          ELSE label.dict[1][2])
    ELSE label.text

\* a plausible slip: the default compared with the code of the option only
AnswerOptionCodeOnly(input_def, option, lang, default_value) ==
    LET code_val == Get(option, "value", <<>>)
        label == OptionLabel(option, lang)
        terminology == Get(input_def, "terminology", NoneValue)
        coding_dict == IF Truthy(terminology)
                       THEN [system |-> terminology, code |-> code_val, display |-> label]
                       ELSE [code |-> code_val, display |-> label]
    IN IF Truthy(default_value) /\ default_value = code_val
       THEN [valueCoding |-> coding_dict, initialSelected |-> TRUE]
       ELSE [valueCoding |-> coding_dict]

\* a plausible slip: the label of the language written as the code
AnswerOptionLabelAsCode(input_def, option, lang, default_value) ==
    LET code_val == Get(option, "value", <<>>)
        label == OptionLabel(option, lang)
        terminology == Get(input_def, "terminology", NoneValue)
        coding_dict == IF Truthy(terminology)
                       THEN [system |-> terminology, code |-> label, display |-> label]
                       ELSE [code |-> label, display |-> label]
    IN IF (Truthy(default_value) /\ default_value = label)
          \/ (Truthy(default_value) /\ default_value = code_val)
       THEN [valueCoding |-> coding_dict, initialSelected |-> TRUE]
       ELSE [valueCoding |-> coding_dict]


\* build_answer_options, lines 338-385: the answerOption of one option
AnswerOption(input_def, option, lang, default_value) ==
    LET code_val == Get(option, "value", <<>>)
        label == OptionLabel(option, lang)
        terminology == Get(input_def, "terminology", NoneValue)
        coding_dict == IF Truthy(terminology)
                       THEN [system |-> terminology, code |-> code_val, display |-> label]
                       ELSE [code |-> code_val, display |-> label]
    IN IF (Truthy(default_value) /\ default_value = label)
          \/ (Truthy(default_value) /\ default_value = code_val)
       THEN [valueCoding |-> coding_dict, initialSelected |-> TRUE]
       ELSE [valueCoding |-> coding_dict]

\* build_answer_options, lines 325-385: what one input_def appends to options
InputOptions(input_def, lang, default_value) ==
    LET terminology == Get(input_def, "terminology", NoneValue)
        value_set == IF Truthy(terminology) /\ MentionsFhirOrg(terminology)
                        /\ ValueSetUrl(terminology) # NoneValue
                     THEN << [answerValueSet |-> ValueSetUrl(terminology)] >>
                     ELSE << >>
        listed == IF "list" \in DOMAIN input_def
                  THEN [n \in 1..Len(input_def.list) |->
                           AnswerOption(input_def, input_def.list[n], lang, default_value)]
                  ELSE << >>
    IN value_set \o listed

\* build_answer_options
RECURSIVE BuildAnswerOptionsFrom(_, _, _, _)
BuildAnswerOptionsFrom(inputs, n, lang, default_value) ==
    IF n > Len(inputs) THEN << >>
    ELSE InputOptions(inputs[n], lang, default_value)
         \o BuildAnswerOptionsFrom(inputs, n + 1, lang, default_value)
BuildAnswerOptions(node, lang, default_value) ==
    BuildAnswerOptionsFrom(Get(node, "inputs", <<>>), 1, lang, default_value)

\* build_quantity_with_unit_options, lines 419-421: the unit options in order
RECURSIVE UnitOptionsFrom(_, _)
UnitOptionsFrom(inputs, n) ==
    IF n > Len(inputs) THEN << >>
    ELSE (IF Get(inputs[n], "suffix", "none") = "unit" /\ "list" \in DOMAIN inputs[n]
          THEN inputs[n].list ELSE << >>)
         \o UnitOptionsFrom(inputs, n + 1)

UnitsOfMeasure == <<"http:", "/", "/", "unitsofmeasure.org">>

\* lines 422-435: the questionnaire-unitOption extension of one unit option
UnitExtension(unit_option) ==
    LET code_val == Get(unit_option, "value", <<>>)
        label == Get(unit_option, "label", [text |-> code_val])
    IN [url |-> "http://hl7.org/fhir/StructureDefinition/questionnaire-unitOption",
        valueCoding |-> [system |-> UnitsOfMeasure, code |-> code_val,
                         display |-> IF "dict" \in DOMAIN label THEN label.dict[1][2]
                                     ELSE label.text]]

\* lines 436-445: the declared range bounds of the unit options
RangeOf(unit_option) == Get(Get(unit_option, "validation", EmptyDict), "range", EmptyDict)
LocalMins(units) == {RangeOf(units[n]).min : n \in {m \in 1..Len(units) : "min" \in DOMAIN RangeOf(units[m])}}
LocalMaxs(units) == {RangeOf(units[n]).max : n \in {m \in 1..Len(units) : "max" \in DOMAIN RangeOf(units[m])}}

\* a plausible slip: the bounds of the last unit that declares them, the
\* comparison with the running minimum and maximum forgotten
BuildQuantityLastBounds(fhir_item, node) ==
    LET units == UnitOptionsFrom(Get(node, "inputs", <<>>), 1)
        with_min == {n \in 1..Len(units) : "min" \in DOMAIN RangeOf(units[n])}
        with_max == {n \in 1..Len(units) : "max" \in DOMAIN RangeOf(units[n])}
        last(S) == CHOOSE n \in S : \A m \in S : m <= n
        extensions ==
            [n \in 1..Len(units) |-> UnitExtension(units[n])]
            \o (IF with_min # {}
                THEN << [url |-> "http://hl7.org/fhir/StructureDefinition/minValue",
                         valueDecimal |-> RangeOf(units[last(with_min)]).min] >>
                ELSE << >>)
            \o (IF with_max # {}
                THEN << [url |-> "http://hl7.org/fhir/StructureDefinition/maxValue",
                         valueDecimal |-> RangeOf(units[last(with_max)]).max] >>
                ELSE << >>)
    IN IF extensions # << >> THEN fhir_item @@ [extension |-> extensions] ELSE fhir_item

\* build_quantity_with_unit_options: the item with its extension field set
BuildQuantityWithUnitOptions(fhir_item, node) ==
    LET units == UnitOptionsFrom(Get(node, "inputs", <<>>), 1)
        extensions ==
            [n \in 1..Len(units) |-> UnitExtension(units[n])]
            \o (IF LocalMins(units) # {}
                THEN << [url |-> "http://hl7.org/fhir/StructureDefinition/minValue",
                         valueDecimal |-> MinOf(LocalMins(units))] >>
                ELSE << >>)
            \o (IF LocalMaxs(units) # {}
                THEN << [url |-> "http://hl7.org/fhir/StructureDefinition/maxValue",
                         valueDecimal |-> MaxOf(LocalMaxs(units))] >>
                ELSE << >>)
    IN IF extensions # << >> THEN fhir_item @@ [extension |-> extensions] ELSE fhir_item

----------------------------------------------------------------------------
(* webtemplate_to_fhir_questionnaire_json.py: process_webtemplate_node and  *)
(* convert_webtemplate_to_fhir_questionnaire_json                           *)

\* a plausible slip: the middle fallback left out
Or3SkipMiddle(a, b, c) == IF Truthy(a) THEN a ELSE c

\* a or b or c on str-or-None values
Or3(a, b, c) == IF Truthy(a) THEN a ELSE IF Truthy(b) THEN b ELSE c

\* cardinality_map[flat_path] = (min_occurs, max_occurs) on an OrderedDict,
\* held as the list of its (key, value) in insertion order
SetCardinality(cmap, flat_path, cardinality) ==
    IF \E n \in 1..Len(cmap) : cmap[n][1] = flat_path
    THEN [n \in 1..Len(cmap) |-> IF cmap[n][1] = flat_path
                                 THEN <<flat_path, cardinality>> ELSE cmap[n]]
    ELSE Append(cmap, <<flat_path, cardinality>>)

\* a plausible slip: the help item linked as the item it explains
HelpItemSameLink(flat_path, help_text) ==
    [linkId |-> flat_path,
     type |-> "display",
     text |-> help_text,
     extension |-> << [url |-> "http://hl7.org/fhir/StructureDefinition/questionnaire-itemControl",
                       valueCodeableConcept |->
                           [coding |-> << [system |-> "http://hl7.org/fhir/questionnaire-item-control",
                                           code |-> "help", display |-> "Help-Button"] >>,
                            text |-> "Help-Button"]] >>]


\* lines 191-210
HelpItem(flat_path, help_text) ==
    [linkId |-> flat_path \o <<"_", "helpText">>,
     type |-> "display",
     text |-> help_text,
     extension |-> << [url |-> "http://hl7.org/fhir/StructureDefinition/questionnaire-itemControl",
                       valueCodeableConcept |->
                           [coding |-> << [system |-> "http://hl7.org/fhir/questionnaire-item-control",
                                           code |-> "help", display |-> "Help-Button"] >>,
                            text |-> "Help-Button"]] >>]

\* a plausible slip: the node's local id alone as linkId
FlatPathLocal(parent_ids, current_id) == current_id

\* lines 173-174: "/".join(parent_ids + [current_id])
FlatPath(parent_ids, current_id) == Join(Append(parent_ids, current_id), "/")

\* a plausible slip: repeats from max >= 2 alone, the unbounded sentinel forgotten
RepeatsBoundedOnly(max_occurs) == max_occurs >= 2

\* line 157 and line 158
Required(min_occurs) == min_occurs >= 1
Repeats(max_occurs) == max_occurs >= 2 \/ max_occurs = -1

\* a plausible slip: only the node itself filtered, whatever its inContext says
IsContextualNever(node) == FALSE

\* line 146: node.get("inContext") is True
IsContextual(node) == Get(node, "inContext", FALSE) = TRUE

\* a plausible slip: a group left in the output with no sub-items
GroupResultKeepEmpty(fhir_item, subitems) ==
    [k \in (DOMAIN fhir_item) \cup {"item"} |->
        IF k = "item" THEN subitems ELSE fhir_item[k]]

\* lines 218-231: the group item once its children are processed
GroupResult(fhir_item, subitems) ==
    IF subitems # << >>
    THEN [k \in (DOMAIN fhir_item) \cup {"item"} |->
             IF k = "item" THEN subitems ELSE fhir_item[k]]
    ELSE NoItem

\* lines 234-250: the leaf item
LeafResult(fhir_item, node, lang, version) ==
    LET typed == [fhir_item EXCEPT !.type = MapRmtypeToFhirType(node, version)]
    IN IF typed.type \in {"choice", "open-choice", "question", "coding"}
       THEN LET default_val == FindDefaultValue(Get(node, "inputs", <<>>), 1)
                answer_options == BuildAnswerOptions(node, lang, default_val)
            IN IF answer_options # << >>
               THEN typed @@ [answerOption |-> answer_options] ELSE typed
       ELSE IF typed.type = "quantity" THEN BuildQuantityWithUnitOptions(typed, node)
       ELSE typed

RECURSIVE ProcessWebtemplateNode(_, _, _, _, _, _)
RECURSIVE ProcessChildren(_, _, _, _, _, _, _)

\* lines 220-226: the children from the n-th on; the result is the sub-items
\* and the cardinality map
ProcessChildren(children, n, lang, version, parent_ids, cmap, help) ==
    IF n > Len(children) THEN [subitems |-> << >>, cardinality_map |-> cmap]
    ELSE LET first == ProcessWebtemplateNode(children[n], lang, version, parent_ids, cmap, help)
             rest == ProcessChildren(children, n + 1, lang, version, parent_ids,
                                     first.cardinality_map, help)
         IN [subitems |-> (IF first.item # NoItem THEN <<first.item>> ELSE << >>)
                          \o rest.subitems,
             cardinality_map |-> rest.cardinality_map]

\* process_webtemplate_node: the item (or NoItem) and the cardinality map
ProcessWebtemplateNode(node, lang, version, parent_ids, cmap, help) ==
    IF IsContextual(node) THEN [item |-> NoItem, cardinality_map |-> cmap]
    ELSE
    LET min_occurs == Get(node, "min", 0)
        max_occurs == Get(node, "max", 1)
        current_id == Get(node, "id", NoneValue)
        flat_path_parts == Append(parent_ids, current_id)
        flat_path == FlatPath(parent_ids, current_id)
        cmap1 == SetCardinality(cmap, flat_path, <<min_occurs, max_occurs>>)
        localized == GetLocalizedName(node, lang)
        item_text == IF Truthy(localized) THEN localized
                     ELSE Or3(Get(node, "name", NoneValue),
                              Get(node, "localizedName", NoneValue),
                              Get(node, "id", NoneValue))
        help_text == GetLocalizedDescription(node, lang)
        base == [required |-> Required(min_occurs),
                 repeats |-> Repeats(max_occurs),
                 linkId |-> flat_path,
                 text |-> item_text,
                 type |-> "unset"]
        fhir_item == IF help /\ Truthy(help_text)
                     THEN base @@ [item |-> << HelpItem(flat_path, help_text) >>]
                     ELSE base
        children == Get(node, "children", << >>)
    IN IF children # << >>
       THEN LET done == ProcessChildren(children, 1, lang, version, flat_path_parts,
                                        cmap1, help)
            IN [item |-> GroupResult([fhir_item EXCEPT !.type = "group"], done.subitems),
                cardinality_map |-> done.cardinality_map]
       ELSE [item |-> LeafResult(fhir_item, node, lang, version),
             cardinality_map |-> cmap1]

\* str.replace(old, new) for a one-atom old; new is a list of atoms
RECURSIVE Replace(_, _, _)
Replace(str, old, new) ==
    IF str = << >> THEN << >>
    ELSE (IF Head(str) = old THEN new ELSE <<Head(str)>>) \o Replace(Tail(str), old, new)

\* lines 46-51 and 92: the local time of the call, formatted
Now == <<"2025-10-07T09", ":", "07", ":", "00+02", ":", "00">>

root_node == web_template.tree

\* lines 66-110: the questionnaire with the top-level group item and no child yet.
\* name, publisher and description are not supplied by the caller.
NewQuestionnaire ==
    LET template_id == Get(web_template, "templateId", <<"unknown-web-template">>)
        top_level_name == GetLocalizedName(root_node, preferred_lang)
        top_level_description == GetLocalizedDescription(root_node, preferred_lang)
        composition_item ==
            [linkId |-> Get(root_node, "id", NoneValue),
             text |-> IF Truthy(top_level_name) THEN top_level_name
                      ELSE Get(root_node, "name", <<"Composition">>),
             type |-> "group",
             item |-> << >>]
    IN [resourceType |-> "Questionnaire",
        id |-> Replace(template_id, "_", <<"-">>),
        language |-> preferred_lang,
        version |-> "1.0.0",
        identifier |-> << [system |-> TemplateSystem, value |-> template_id] >>,
        name |-> Replace(top_level_name, " ", << >>),
        title |-> IF Truthy(top_level_name) THEN top_level_name
                  ELSE Get(root_node, "name", <<"Unnamed", " ", "Template">>),
        status |-> "draft",
        publisher |-> <<"converter">>,
        date |-> Now,
        description |-> top_level_description,
        item |-> << composition_item >>]

\* a plausible slip: the version is never checked
FwdPrepareAnyVersion ==
    /\ fpc = "call"
    /\ questionnaire' = NewQuestionnaire
    /\ fpc' = "walk"
    /\ cardinality_map' = << >>
    /\ UNCHANGED <<web_template, preferred_lang, fhir_version, create_help_buttons,
                   child_idx, output_file, ferror>>
    /\ UNCHANGED <<rev_vars, mod_vars>>


\* lines 33-110: read the template, check the version, build the questionnaire
FwdPrepare ==
    /\ fpc = "call"
    /\ IF fhir_version \in {"R4", "R5"}
       THEN /\ questionnaire' = NewQuestionnaire
            /\ fpc' = "walk"
            /\ ferror' = ferror
       ELSE /\ fpc' = "raised"
            /\ ferror' = "ValueError"
            /\ questionnaire' = questionnaire
    /\ cardinality_map' = << >>
    /\ UNCHANGED <<web_template, preferred_lang, fhir_version, create_help_buttons,
                   child_idx, output_file>>
    /\ UNCHANGED <<rev_vars, mod_vars>>

\* lines 116-119: one turn of the loop over the children of the root
FwdChild ==
    /\ fpc = "walk"
    /\ child_idx < Len(Get(root_node, "children", << >>))
    /\ LET child == root_node.children[child_idx + 1]
           out == ProcessWebtemplateNode(child, preferred_lang, fhir_version,
                                         << Get(root_node, "id", NoneValue) >>,
                                         cardinality_map, create_help_buttons)
       IN /\ questionnaire' =
                 IF out.item # NoItem
                 THEN [questionnaire EXCEPT !.item[1].item = Append(@, out.item)]
                 ELSE questionnaire
          /\ cardinality_map' = out.cardinality_map
    /\ child_idx' = child_idx + 1
    /\ UNCHANGED <<web_template, preferred_lang, fhir_version, create_help_buttons,
                   fpc, output_file, ferror>>
    /\ UNCHANGED <<rev_vars, mod_vars>>

\* lines 122-123: the document is written
FwdWrite ==
    /\ fpc = "walk"
    /\ child_idx = Len(Get(root_node, "children", << >>))
    /\ output_file' = questionnaire
    /\ fpc' = "returned"
    /\ UNCHANGED <<web_template, preferred_lang, fhir_version, create_help_buttons,
                   questionnaire, child_idx, cardinality_map, ferror>>
    /\ UNCHANGED <<rev_vars, mod_vars>>

NextCompile == FwdPrepare \/ FwdChild \/ FwdWrite

----------------------------------------------------------------------------
(* Inputs of the forward compiler. *)

\* {"inContext": true} when the node is contextual
ContextFlag(in_context) == IF in_context THEN [inContext |-> TRUE] ELSE EmptyDict

CodedOptions ==
    << [value |-> <<"option1">>,
        label |-> [dict |-> << <<"en", <<"Option", " ", "1">> >>, <<"de", <<"Wahl", " ", "1">> >> >>]],
       [value |-> <<"option2">>,
        label |-> [dict |-> << <<"en", <<"Option", " ", "2">> >>, <<"de", <<"Wahl", " ", "2">> >> >>]] >>

\* a coded-text leaf, a cluster of the children given; ids are set by Labelled
ShapeLeaf(in_context) ==
    [rmType |-> "DV_CODED_TEXT",
     name |-> <<"Element">>,
     localizedNames |-> [en |-> <<"Element">>, de |-> <<"Element", " ", "de">>],
     localizedDescriptions |-> [en |-> <<"About", " ", "element">>],
     min |-> 0, max |-> 1,
     inputs |-> << [type |-> "CODED_TEXT", list |-> CodedOptions] >>]
    @@ ContextFlag(in_context)

ShapeGroup(in_context, children) ==
    [rmType |-> "CLUSTER",
     name |-> <<"Section">>,
     localizedNames |-> [en |-> <<"Section">>, de |-> <<"Abschnitt">>],
     localizedDescriptions |-> [en |-> <<"About", " ", "section">>],
     min |-> 1, max |-> -1,
     children |-> children]
    @@ ContextFlag(in_context)

\* the id of the p-th child of any node: siblings have distinct ids, and the
\* same local ids recur below different parents
ChildIds == << <<"a">>, <<"b">>, <<"c">>, <<"d">>, <<"e">> >>

RECURSIVE Labelled(_, _)
Labelled(node, current_id) ==
    IF "children" \in DOMAIN node
    THEN [k \in (DOMAIN node) \cup {"id"} |->
             IF k = "id" THEN current_id
             ELSE IF k = "children"
                  THEN [p \in 1..Len(node.children) |-> Labelled(node.children[p], ChildIds[p])]
             ELSE node[k]]
    ELSE node @@ [id |-> current_id]

Shapes0 == {ShapeLeaf(c) : c \in BOOLEAN}
Shapes1 == Shapes0 \cup {ShapeGroup(c, kids) : c \in BOOLEAN,
                                               kids \in SeqsOf(Shapes0, 1, MaxChildren)}
\* the contextual date-time node of a composition, /context/start_time
StartTime ==
    [rmType |-> "DV_DATE_TIME",
     name |-> <<"Start", " ", "time">>,
     localizedNames |-> [en |-> <<"Start", " ", "time">>],
     localizedDescriptions |-> [en |-> <<"About", " ", "start">>],
     aqlPath |-> <<"/", "context", "/", "start", "_", "time">>,
     min |-> 1, max |-> 1,
     inContext |-> TRUE]

RECURSIVE Chains(_)
Chains(d) == IF d = 0 THEN Shapes1 \cup {StartTime}
             ELSE {ShapeGroup(c, <<g>>) : c \in BOOLEAN, g \in Chains(d - 1)}

RootId == <<"sample", "_", "root">>

MkTemplate(children) ==
    [templateId |-> <<"sample", "_", "template">>,
     tree |-> Labelled([rmType |-> "COMPOSITION",
                        name |-> <<"Sample", " ", "Web", " ", "Template">>,
                        localizedNames |-> [en |-> <<"Sample", " ", "Web", " ", "Template">>],
                        localizedDescriptions |-> [en |-> <<"A", " ", "sample">>],
                        children |-> children], RootId)]

\* Templates for the walk: up to MaxChildren children of the root, each a leaf
\* or a group of leaves; and chains of up to MaxDepth nested groups above one.
ShapeTemplates ==
    {MkTemplate(children) : children \in SeqsOf(Shapes1, 0, MaxChildren)}
    \cup {MkTemplate(<<g>>) : g \in UNION {Chains(d) : d \in 1..MaxDepth}}

\* the process_questionnaire_bundle side is not running
RevIdle ==
    /\ bundle_json = EmptyDict
    /\ ctx_setting = NoneValue
    /\ ctx_territory = NoneValue
    /\ server = EmptyDict
    /\ default_locale = LocaleNone
    /\ pc = "idle"
    /\ idx = 0
    /\ practitioner_id = Unbound
    /\ encounter_id = Unbound
    /\ compositions = << >>
    /\ error = "none"
    /\ item_calls = << >>
    /\ answer_calls = << >>

FwdStart ==
    /\ fpc = "call"
    /\ questionnaire = NoDocument
    /\ child_idx = 0
    /\ output_file = NoDocument
    /\ cardinality_map = << >>
    /\ ferror = "none"
    /\ ModuleLoaded

InitCompile ==
    /\ web_template \in ShapeTemplates
    /\ preferred_lang = "en"
    /\ fhir_version \in {"R4", "R3"}
    /\ create_help_buttons = TRUE
    /\ FwdStart
    /\ RevIdle

\* the tree walk of the forward compiler, over ShapeTemplates
SpecCompile == InitCompile /\ [][NextCompile]_vars

----------------------------------------------------------------------------
(* Templates of one node below the root, in its varieties. *)

OpenDecls == {EmptyDict, [listOpen |-> TRUE], [listOpen |-> FALSE]}

\* the input definitions of web templates: option lists are carried by inputs
\* of type CODED_TEXT or TEXT
InputDefs ==
    {[suffix |-> "code", type |-> "CODED_TEXT", list |-> CodedOptions] @@ o : o \in OpenDecls}
    \cup {[type |-> "TEXT", list |-> CodedOptions] @@ o : o \in OpenDecls}
    \cup {[suffix |-> "other", type |-> "TEXT"] @@ o : o \in OpenDecls}
    \cup {[suffix |-> "magnitude", type |-> "DECIMAL"]}

InputDecls == {EmptyDict} \cup {[inputs |-> i] : i \in SeqsOf(InputDefs, 0, 2)}

RmTypes == {"DV_CODED_TEXT", "dv_coded_text", "DV_TEXT", "DV_COUNT", "DV_BOOLEAN", "FOO"}
RmTypeDecls == {EmptyDict} \cup {[rmType |-> t] : t \in RmTypes}

NamedNode ==
    [name |-> <<"Element">>,
     localizedNames |-> [en |-> <<"Element">>, de |-> <<"Element", " ", "de">>],
     localizedDescriptions |-> [en |-> <<"About", " ", "element">>]]

\* leaves of every type with every list of inputs
TypedNodes == {(NamedNode @@ t) @@ i : t \in RmTypeDecls, i \in InputDecls}

\* a quantity leaf with its units
QuantityNode ==
    NamedNode @@
    [rmType |-> "Dv_Quantity",
     inputs |-> << [suffix |-> "magnitude", type |-> "DECIMAL"],
                   [suffix |-> "unit", type |-> "CODED_TEXT",
                    list |-> << [value |-> <<"mm[Hg]">>, label |-> [text |-> <<"mmHg">>],
                                 validation |-> [range |-> [min |-> 0, max |-> 300]]],
                                [value |-> <<"kPa">>,
                                 validation |-> [range |-> [min |-> 1, max |-> 40]]] >>] >>]

MinDecls == {EmptyDict} \cup {[min |-> v] : v \in 0..2}
MaxDecls == {EmptyDict} \cup {[max |-> v] : v \in (-1)..3}

\* a coded leaf, and a cluster above it, with the occurrences declared or not
CardinalNodes ==
    LET leaf(mn, mx) == ((NamedNode @@ [rmType |-> "DV_CODED_TEXT",
                                        inputs |-> << [type |-> "CODED_TEXT",
                                                       list |-> CodedOptions] >>])
                         @@ mn) @@ mx
        group(mn, mx) == ((NamedNode @@ [rmType |-> "CLUSTER",
                                         children |-> << leaf(mn, mx) >>]) @@ mn) @@ mx
    IN {leaf(mn, mx) : mn \in MinDecls, mx \in MaxDecls}
       \cup {group(mn, mx) : mn \in MinDecls, mx \in MaxDecls}

NodeTemplates ==
    {MkTemplate(<<node>>) : node \in TypedNodes \cup {QuantityNode} \cup CardinalNodes}

InitNode ==
    /\ web_template \in NodeTemplates
    /\ preferred_lang \in {"en", "de", "fr"}
    /\ fhir_version \in {"R4", "R5"}
    /\ create_help_buttons \in BOOLEAN
    /\ FwdStart
    /\ RevIdle

\* the forward compiler on one node below the root, in its varieties
SpecNode == InitNode /\ [][NextCompile]_vars

----------------------------------------------------------------------------
(* Claims on the compiled questionnaire. *)

\* the ids given, joined with "/" in their order
RECURSIVE Slashed(_)
Slashed(ids) ==
    IF Len(ids) = 1 THEN ids[1]
    ELSE Slashed(SubSeq(ids, 1, Len(ids) - 1)) \o <<"/">> \o ids[Len(ids)]

HelpLinkOf(ids) == Slashed(ids) \o <<"_", "helpText">>

IsHelp(item) == item.type = "display"

\* the items of a list of items, with all the items below them
RECURSIVE ItemsBelow(_)
ItemsBelow(items) ==
    UNION {{items[n]} \cup ItemsBelow(Get(items[n], "item", << >>)) : n \in 1..Len(items)}

\* the nodes below a node of the template, each with the ids from the root to
\* it and whether it or an ancestor of it is contextual
RECURSIVE NodesBelow(_, _, _)
NodesBelow(node, ids, contextual) ==
    LET children == Get(node, "children", << >>) IN
    UNION {LET child == children[n]
               child_ids == Append(ids, child.id)
               flagged == contextual \/ ("inContext" \in DOMAIN child /\ child.inContext = TRUE)
           IN {[ids |-> child_ids, node |-> child, contextual |-> flagged]}
              \cup NodesBelow(child, child_ids, flagged)
           : n \in 1..Len(children)}

TemplateNodes == NodesBelow(web_template.tree, <<web_template.tree.id>>, FALSE)
Written == fpc = "returned"
WrittenItems == ItemsBelow(output_file.item)
WrittenLinkIds == {it.linkId : it \in WrittenItems}

\* every item of the list that is not a help item is the item of a child of
\* the node, linked by the ids from the root to that child, and so below it
RECURSIVE LinkedBelow(_, _, _)
LinkedBelow(items, node, ids) ==
    \A n \in 1..Len(items) :
        \/ IsHelp(items[n])
        \/ \E c \in 1..Len(Get(node, "children", << >>)) :
              LET child == node.children[c]
                  child_ids == Append(ids, child.id)
              IN /\ items[n].linkId = Slashed(child_ids)
                 /\ LinkedBelow(Get(items[n], "item", << >>), child, child_ids)

\* C2: the linkId of every item emitted for a template node is the ids of the
\* root, of each ancestor and of the node joined with "/" in root-to-node
\* order, and the linkId of the synthetic root item is the id of the root.
C2_LinkIdIsJoinedIds ==
    Written =>
        /\ Len(output_file.item) = 1
        /\ output_file.item[1].linkId = web_template.tree.id
        /\ LinkedBelow(output_file.item[1].item, web_template.tree, <<web_template.tree.id>>)

\* an item two levels below the root item is written, for the first child of
\* the second child of the root
C2_Witness ==
    /\ Written
    /\ \E top \in 1..Len(output_file.item[1].item) :
          LET sub == Get(output_file.item[1].item[top], "item", << >>) IN
          \E n \in 1..Len(sub) :
              /\ ~IsHelp(sub[n])
              /\ sub[n].linkId = <<"sample", "_", "root", "/", "b", "/", "a">>

\* C3: no item of the compiled questionnaire is the item of a node with
\* inContext = true or of a descendant of such a node, and no help item for
\* such a node is in it (the date-time node of the context is absent as well).
C3_ContextualAbsent ==
    Written =>
        \A n \in TemplateNodes :
            n.contextual => /\ Slashed(n.ids) \notin WrittenLinkIds
                            /\ HelpLinkOf(n.ids) \notin WrittenLinkIds

\* a questionnaire is written with items of nodes, from a template that has
\* a contextual leaf and a node not itself contextual below a contextual one
C3_Witness ==
    /\ Written
    /\ output_file.item[1].item # << >>
    /\ \E n \in TemplateNodes : n.contextual /\ "inContext" \notin DOMAIN n.node
    /\ \E n \in TemplateNodes : "inContext" \in DOMAIN n.node
                                /\ "children" \notin DOMAIN n.node

\* the start-time node of the context is in the template of a written questionnaire
C3_StartTimeWitness ==
    /\ Written
    /\ \E n \in TemplateNodes : "aqlPath" \in DOMAIN n.node

NoChildYields(n) ==
    \A c \in 1..Len(n.node.children) :
        Slashed(Append(n.ids, n.node.children[c].id)) \notin WrittenLinkIds

\* C4: a node below the root that has children, none of which yields an item,
\* yields no item and no help item, at any depth of nesting.
C4_EmptyGroupsPruned ==
    Written =>
        \A n \in TemplateNodes :
            ("children" \in DOMAIN n.node /\ NoChildYields(n))
               => /\ Slashed(n.ids) \notin WrittenLinkIds
                  /\ HelpLinkOf(n.ids) \notin WrittenLinkIds

\* a group that is not contextual, whose only child is a group that is not
\* contextual, whose children are all contextual leaves: both are pruned
C4_Witness ==
    /\ Written
    /\ \E n \in TemplateNodes :
          /\ ~n.contextual
          /\ "children" \in DOMAIN n.node
          /\ Len(n.node.children) = 1
          /\ "children" \in DOMAIN n.node.children[1]
          /\ "inContext" \notin DOMAIN n.node.children[1]
          /\ \A c \in 1..Len(n.node.children[1].children) :
                "inContext" \in DOMAIN n.node.children[1].children[c]
          /\ Slashed(n.ids) \notin WrittenLinkIds

\* an input definition with an option list marks the list open
MarksListOpen(node) ==
    LET inputs == Get(node, "inputs", << >>) IN
    \E n \in 1..Len(inputs) :
        /\ "list" \in DOMAIN inputs[n]
        /\ "listOpen" \in DOMAIN inputs[n]
        /\ inputs[n].listOpen = TRUE

IsCodedLeaf(node) ==
    /\ "children" \notin DOMAIN node
    /\ "rmType" \in DOMAIN node
    /\ node.rmType = "DV_CODED_TEXT"

DeclaredMin(node) == IF "min" \in DOMAIN node THEN node.min ELSE 0
DeclaredMax(node) == IF "max" \in DOMAIN node THEN node.max ELSE 1

\* C8: every item emitted for a template node has required = (min >= 1) and
\* repeats = (max >= 2 or max = -1), min taken as 0 and max as 1 when the
\* node does not declare them.
C8_RequiredAndRepeats ==
    Written =>
        \A n \in TemplateNodes : \A it \in WrittenItems :
            it.linkId = Slashed(n.ids) =>
                /\ it.required = (DeclaredMin(n.node) >= 1)
                /\ it.repeats = (DeclaredMax(n.node) >= 2 \/ DeclaredMax(n.node) = -1)

\* an item that repeats and is not required is written for a leaf below a
\* cluster, the leaf declaring max = -1 and no min
C8_Witness ==
    /\ Written
    /\ \E n \in TemplateNodes : \E it \in WrittenItems :
          /\ it.linkId = Slashed(n.ids)
          /\ "min" \notin DOMAIN n.node
          /\ "max" \in DOMAIN n.node /\ n.node.max = -1
          /\ it.repeats /\ ~it.required
          /\ Len(n.ids) = 3

----------------------------------------------------------------------------
(* Batches for process_questionnaire_bundle. *)

OneAnswerItems == << MkItem(<<"a">>, StringAnswers(1), << >>) >>

\* the entries a batch is made of
EntryKinds ==
    { [resource |-> [resourceType |-> "Practitioner", id |-> <<"dr1">>]],
      [resource |-> [resourceType |-> "Practitioner", id |-> <<"dr2">>]],
      [resource |-> [resourceType |-> "Encounter", id |-> <<"visit1">>]],
      [resource |-> MkResponse(Url1, OneAnswerItems)],
      [resource |-> MkResponse(Url2, OneAnswerItems)],
      [resource |-> [resourceType |-> "Patient", id |-> <<"p1">>]] }

\* batches of up to MaxEntries entries in any order, a batch without the entry
\* key, and the single responses
Bundles ==
    {[resourceType |-> "Bundle", entry |-> es] : es \in SeqsOf(EntryKinds, 0, MaxEntries)}
    \cup {[resourceType |-> "Bundle"]}
    \cup {MkResponse(Url1, OneAnswerItems), MkResponse(Url2, OneAnswerItems)}

InitBundle ==
    /\ bundle_json \in Bundles
    /\ ctx_setting = <<"238">>
    /\ ctx_territory \in {<<"CH">>, NoneValue}
    /\ server \in {BothServe, OnlyFirstServes}
    /\ default_locale \in {LocaleUS, LocaleNone}
    /\ RevStart
    /\ FwdIdle

NextBundle ==
    \/ ProcessSingle
    \/ EnterLoop
    \/ EntryPractitioner
    \/ EntryEncounter
    \/ EntryResponse
    \/ EntryOther
    \/ ReturnCompositions

\* process_questionnaire_bundle over Bundles
SpecBundle == InitBundle /\ [][NextBundle]_vars

----------------------------------------------------------------------------
(* Claims on process_questionnaire_bundle. *)

IsBatch == Get(bundle_json, "resourceType", "none") # "QuestionnaireResponse"
IsResponseEntry(entry) ==
    /\ "resource" \in DOMAIN entry
    /\ "resourceType" \in DOMAIN entry.resource
    /\ entry.resource.resourceType = "QuestionnaireResponse"

\* the questionnaire references of the responses of a batch, in entry order,
\* of all of them or of those whose questionnaire the server holds
RECURSIVE ResponseRefs(_, _)
ResponseRefs(entries, served_only) ==
    IF entries = << >> THEN << >>
    ELSE (IF IsResponseEntry(Head(entries))
             /\ (~served_only \/ Head(entries).resource.questionnaire \in DOMAIN server)
          THEN << Head(entries).resource.questionnaire >> ELSE << >>)
         \o ResponseRefs(Tail(entries), served_only)

BatchEntries == IF "entry" \in DOMAIN bundle_json THEN bundle_json.entry ELSE << >>
ReturnedRefs == [n \in 1..Len(compositions) |-> compositions[n].questionnaire]
Ended == pc \in {"returned", "raised"}

\* C9: on a batch (its author given before its responses, the territory
\* supplied) in which the fetch of the questionnaire of a response fails, the
\* call still returns, with the record of every other response in entry order.
C9_FetchFailureIsolated ==
    (/\ Ended
     /\ IsBatch
     /\ BatchEntries # << >>
     /\ Get(BatchEntries[1].resource, "resourceType", "none") = "Practitioner"
     /\ ctx_territory # NoneValue
     /\ \E n \in 1..Len(BatchEntries) :
           /\ IsResponseEntry(BatchEntries[n])
           /\ BatchEntries[n].resource.questionnaire \notin DOMAIN server)
    => /\ pc = "returned"
       /\ ReturnedRefs = ResponseRefs(BatchEntries, TRUE)

\* C10: the call returns one record per QuestionnaireResponse, in entry order
\* and tagged with the questionnaire reference of the response, for a single
\* response and for any batch, wherever its Practitioner and Encounter entries
\* are (every questionnaire being held by the server, the territory supplied).
C10_OneRecordPerResponse ==
    (Ended /\ server = BothServe /\ ctx_territory # NoneValue)
    => /\ pc = "returned"
       /\ ReturnedRefs = IF IsBatch THEN ResponseRefs(BatchEntries, FALSE)
                         ELSE << bundle_json.questionnaire >>

\* the positions of the QuestionnaireResponse entries of the batch, in order
ResponsePositions ==
    SelectSeq([n \in 1..Len(BatchEntries) |-> n], LAMBDA n : IsResponseEntry(BatchEntries[n]))

IsPractitionerEntry(entry) ==
    /\ "resource" \in DOMAIN entry
    /\ "resourceType" \in DOMAIN entry.resource
    /\ entry.resource.resourceType = "Practitioner"

\* the id of the most recent Practitioner entry before position n, or Unbound
PrecedingAuthor(n) ==
    LET before == {m \in 1..(n - 1) : IsPractitionerEntry(BatchEntries[m])} IN
    IF before = {} THEN Unbound
    ELSE BatchEntries[CHOOSE m \in before : \A o \in before : o <= m].resource.id

ComposerName == <<"ctx", "/", "composer", "_", "name">>

\* C11: in a batch (every questionnaire held by the server, the territory
\* supplied) each QuestionnaireResponse entry that a Practitioner entry
\* precedes is converted, with ctx/composer_name the id of the most recent
\* Practitioner entry before it.
C11_AuthorOfPrecedingPractitioner ==
    (Ended /\ IsBatch /\ server = BothServe /\ ctx_territory # NoneValue)
    => \A k \in 1..Len(ResponsePositions) :
          PrecedingAuthor(ResponsePositions[k]) # Unbound
          => /\ Len(compositions) >= k
             /\ compositions[k].composition[ComposerName]
                   = PrecedingAuthor(ResponsePositions[k])

\* the same on the records the call returns: the k-th record has the id of
\* the most recent Practitioner entry before the k-th response
AuthorOfReturnedRecords ==
    (pc = "returned" /\ IsBatch)
    => \A k \in 1..Len(compositions) :
          compositions[k].composition[ComposerName]
             = PrecedingAuthor(ResponsePositions[k])

\* a batch returns the record of a response that stands after two
\* Practitioner entries, or between two, with the id of the one just before it
AuthorChangesWitness ==
    /\ pc = "returned" /\ IsBatch
    /\ Len(compositions) = 1
    /\ \E n \in 1..Len(BatchEntries) : \E m \in 1..Len(BatchEntries) :
          /\ IsPractitionerEntry(BatchEntries[n]) /\ IsPractitionerEntry(BatchEntries[m])
          /\ BatchEntries[n].resource.id = <<"dr1">>
          /\ BatchEntries[m].resource.id = <<"dr2">>
          /\ n < ResponsePositions[1]
          /\ compositions[1].composition[ComposerName] = <<"dr1">>

TerritoryKey == <<"ctx", "/", "territory">>

\* C12: on a single response whose questionnaire the server holds, the
\* conversion does not raise; ctx/territory is the territory supplied when one
\* is; else the territory of the default locale when there is one; else it is
\* left unset.
C12_TerritoryPrecedence ==
    (Ended /\ ~IsBatch /\ bundle_json.questionnaire \in DOMAIN server)
    => /\ pc = "returned"
       /\ Len(compositions) = 1
       /\ LET composition == compositions[1].composition IN
          IF ctx_territory # NoneValue
          THEN composition[TerritoryKey] = ctx_territory
          ELSE IF default_locale = LocaleUS
          THEN composition[TerritoryKey] = <<"US">>
          ELSE \/ TerritoryKey \notin DOMAIN composition
               \/ composition[TerritoryKey] = NoneValue

\* the same where the environment has a default locale
TerritoryWithLocale ==
    (Ended /\ ~IsBatch /\ bundle_json.questionnaire \in DOMAIN server
     /\ (ctx_territory # NoneValue \/ default_locale = LocaleUS))
    => /\ pc = "returned"
       /\ compositions[1].composition[TerritoryKey]
             = IF ctx_territory # NoneValue THEN ctx_territory ELSE <<"US">>

\* a record is returned with the territory of the default locale
TerritoryWithLocaleWitness ==
    /\ pc = "returned" /\ ~IsBatch
    /\ ctx_territory = NoneValue
    /\ compositions[1].composition[TerritoryKey] = <<"US">>

----------------------------------------------------------------------------
(* Templates of one coded leaf, in the varieties of its input definitions. *)

\* options: with a label per language, an at-code with a plain label, an
\* at-code without label
OptionKinds ==
    { CodedOptions[1],
      [value |-> <<"at0001">>, label |-> [text |-> <<"Sitting">>]],
      [value |-> <<"at0002">>] }

ValueSetAtFhirOrg ==
    <<"http:", "/", "/", "tx.fhir.org", "/", "r4", "/", "ValueSet", "/", "vs1">>
ValueSetElsewhere ==
    <<"https:", "/", "/", "example.org", "/", "fhir", "/", "ValueSet", "/", "vs2">>
CodeSystemAtFhirOrg ==
    <<"http:", "/", "/", "tx.fhir.org", "/", "r4", "/", "CodeSystem", "/", "cs1">>

TerminologyDecls ==
    {EmptyDict} \cup {[terminology |-> t] :
                        t \in {<<"SNOMED-CT">>, ValueSetAtFhirOrg, ValueSetElsewhere,
                               CodeSystemAtFhirOrg}}

ListDecls == {EmptyDict} \cup {[list |-> l] : l \in SeqsOf(OptionKinds, 0, MaxOptions)}

DefaultDecls ==
    {EmptyDict} \cup {[defaultValue |-> v] :
                        v \in {<< >>, <<"at0001">>, <<"Sitting">>, <<"Option", " ", "1">>,
                               <<"Wahl", " ", "1">>}}

OptionInputDefs ==
    {(([type |-> "CODED_TEXT"] @@ t) @@ l) @@ d :
        t \in TerminologyDecls, l \in ListDecls, d \in DefaultDecls}

\* input definitions that may follow the first one
SecondInputDefs ==
    { [suffix |-> "other", type |-> "TEXT"],
      [type |-> "CODED_TEXT", defaultValue |-> <<"at0002">>,
       list |-> << [value |-> <<"at0002">>], CodedOptions[2] >>] }

OptionNodes ==
    {NamedNode @@ [rmType |-> "DV_CODED_TEXT", inputs |-> i] :
        i \in {<<d>> : d \in OptionInputDefs}
              \cup {<<d, e>> : d \in OptionInputDefs, e \in SecondInputDefs}}

OptionTemplates == {MkTemplate(<<node>>) : node \in OptionNodes}

InitOptions ==
    /\ web_template \in OptionTemplates
    /\ preferred_lang \in {"en", "de"}
    /\ fhir_version \in {"R4", "R5"}
    /\ create_help_buttons = FALSE
    /\ FwdStart
    /\ RevIdle

\* the forward compiler on one coded leaf, in the varieties of its inputs
SpecOptions == InitOptions /\ [][NextCompile]_vars

----------------------------------------------------------------------------
(* Claims on the answer options of a coded leaf. *)

\* the leaf below the root and the item written for it
TheLeaf == web_template.tree.children[1]
TheLeafItem == output_file.item[1].item[1]
LeafInputs == IF "inputs" \in DOMAIN TheLeaf THEN TheLeaf.inputs ELSE << >>

\* the enumerated options of the input definitions, in order, each with the
\* input definition that lists it
RECURSIVE ListedOptions(_)
ListedOptions(inputs) ==
    IF inputs = << >> THEN << >>
    ELSE (IF "list" \in DOMAIN Head(inputs)
          THEN [n \in 1..Len(Head(inputs).list) |->
                   [input_def |-> Head(inputs), option |-> Head(inputs).list[n]]]
          ELSE << >>)
         \o ListedOptions(Tail(inputs))

WrittenAnswerOptions ==
    IF "answerOption" \in DOMAIN TheLeafItem THEN TheLeafItem.answerOption ELSE << >>
\* the answer options that are inline codings, in order
WrittenCodings == SelectSeq(WrittenAnswerOptions, LAMBDA o : "valueCoding" \in DOMAIN o)

FollowsAtCode(option) ==
    "value" \in DOMAIN option /\ option.value \in {<<"at0001">>, <<"at0002">>}

\* the codings written are those of the listed options, one each, in order
CodingsMatchOptions == Len(WrittenCodings) = Len(ListedOptions(LeafInputs))

\* C13: the coding of each enumerated option has the system: the terminology
\* of its input definition when one is declared; otherwise a fallback system
\* when the code of the option is an at-code; otherwise no system field.
C13_CodingSystem ==
    Written =>
        /\ CodingsMatchOptions
        /\ \A k \in 1..Len(WrittenCodings) :
              LET listed == ListedOptions(LeafInputs)[k]
                  coding == WrittenCodings[k].valueCoding
              IN IF "terminology" \in DOMAIN listed.input_def
                 THEN "system" \in DOMAIN coding
                      /\ coding.system = listed.input_def.terminology
                 ELSE IF FollowsAtCode(listed.option)
                 THEN "system" \in DOMAIN coding /\ coding.system # NoneValue
                 ELSE "system" \notin DOMAIN coding

\* the same without the at-code rule: the declared terminology, else no system
SystemIsDeclaredTerminology ==
    Written =>
        /\ CodingsMatchOptions
        /\ \A k \in 1..Len(WrittenCodings) :
              LET listed == ListedOptions(LeafInputs)[k]
                  coding == WrittenCodings[k].valueCoding
              IN IF "terminology" \in DOMAIN listed.input_def
                 THEN "system" \in DOMAIN coding
                      /\ coding.system = listed.input_def.terminology
                 ELSE "system" \notin DOMAIN coding

\* an at-code option without terminology is written, after one with a terminology
SystemWitness ==
    /\ Written
    /\ Len(WrittenCodings) >= 2
    /\ "system" \in DOMAIN WrittenCodings[1].valueCoding
    /\ \E k \in 2..Len(WrittenCodings) :
          /\ WrittenCodings[k].valueCoding.code = <<"at0002">>
          /\ "system" \notin DOMAIN WrittenCodings[k].valueCoding

\* the default value declared for the node: that of the first input
\* definition that declares one, or none
RECURSIVE DeclaredDefault(_)
DeclaredDefault(inputs) ==
    IF inputs = << >> THEN << >>
    ELSE IF "defaultValue" \in DOMAIN Head(inputs) THEN Head(inputs).defaultValue
    ELSE DeclaredDefault(Tail(inputs))

\* the label of an option in the language: of a label per language the entry
\* of the language, or else its first entry; a plain label as it is
ResolvedLabel(option) ==
    IF "label" \notin DOMAIN option THEN << >>
    ELSE IF "text" \in DOMAIN option.label THEN option.label.text
    ELSE LET of_lang == {n \in 1..Len(option.label.dict) :
                            option.label.dict[n][1] = preferred_lang}
         IN IF of_lang # {} THEN option.label.dict[CHOOSE n \in of_lang : TRUE][2]
            ELSE option.label.dict[1][2]

IsMarked(answer_option) ==
    "initialSelected" \in DOMAIN answer_option /\ answer_option.initialSelected = TRUE

\* C14: with a non-empty default declared for the node, an answer option is
\* marked initialSelected exactly when its label in the language or its code
\* equals the default; with no default declared, no option is marked.
C14_InitialSelected ==
    Written =>
        /\ CodingsMatchOptions
        /\ \A k \in 1..Len(WrittenCodings) :
              LET option == ListedOptions(LeafInputs)[k].option
                  default == DeclaredDefault(LeafInputs)
              IN /\ IsMarked(WrittenCodings[k])
                    <=> /\ default # << >>
                        /\ \/ ResolvedLabel(option) = default
                           \/ ("value" \in DOMAIN option /\ option.value = default)
                 /\ "initialSelected" \in DOMAIN WrittenCodings[k]
                       => IsMarked(WrittenCodings[k])

\* in German the default "Wahl 1" marks the option of code option1 by its
\* label and no other option
C14_Witness ==
    /\ Written
    /\ preferred_lang = "de"
    /\ DeclaredDefault(LeafInputs) = <<"Wahl", " ", "1">>
    /\ Len(WrittenCodings) >= 2
    /\ \E k \in 1..Len(WrittenCodings) :
          /\ IsMarked(WrittenCodings[k])
          /\ WrittenCodings[k].valueCoding.code = <<"option1">>
    /\ \E k \in 1..Len(WrittenCodings) : ~IsMarked(WrittenCodings[k])

\* the input definition references an external value set: its terminology
\* is a URL of the form .../ValueSet/...
ReferencesValueSet(input_def) ==
    /\ "terminology" \in DOMAIN input_def
    /\ LET t == input_def.terminology IN
       /\ Len(t) >= 3 /\ t[1] \in {"http:", "https:"}
       /\ \E n \in 4..(Len(t) - 3) : t[n] = "/" /\ t[n + 1] = "ValueSet" /\ t[n + 2] = "/"

InlineInputs == SelectSeq(LeafInputs, LAMBDA d : ~ReferencesValueSet(d))

\* C15: for an input definition that references an external value set, a
\* value-set reference with that URL is written and no inline coding is
\* written for its options.
C15_ValueSetInPlaceOfCodings ==
    Written =>
        /\ \A n \in 1..Len(LeafInputs) :
              ReferencesValueSet(LeafInputs[n])
              => \E k \in 1..Len(WrittenAnswerOptions) :
                    /\ "answerValueSet" \in DOMAIN WrittenAnswerOptions[k]
                    /\ WrittenAnswerOptions[k].answerValueSet = LeafInputs[n].terminology
        /\ Len(WrittenCodings) = Len(ListedOptions(InlineInputs))

\* what the code does for a value set at fhir.org: the reference is written
\* before the codings of the options of the input definition
ValueSetReferenceAtFhirOrg ==
    (Written /\ Get(LeafInputs[1], "terminology", NoneValue) = ValueSetAtFhirOrg)
    => /\ WrittenAnswerOptions[1] = [answerValueSet |-> ValueSetAtFhirOrg]
       /\ CodingsMatchOptions

\* a value-set reference is written and so are inline codings
ValueSetReferenceWitness ==
    /\ Written
    /\ Len(WrittenAnswerOptions) >= 2
    /\ WrittenAnswerOptions[1] = [answerValueSet |-> ValueSetAtFhirOrg]
    /\ "valueCoding" \in DOMAIN WrittenAnswerOptions[2]

----------------------------------------------------------------------------
(* Templates of one quantity leaf, in the varieties of its units. *)

RangeDecls ==
    {EmptyDict, [validation |-> EmptyDict]}
    \cup {[validation |-> [range |-> mn @@ mx]] :
            mn \in {EmptyDict, [min |-> 0], [min |-> 5]},
            mx \in {EmptyDict, [max |-> 40], [max |-> 300]}}

UnitOptionKinds ==
    {[value |-> <<"mm[Hg]">>, label |-> [text |-> <<"mmHg">>]] @@ r : r \in RangeDecls}
    \cup {[value |-> <<"kPa">>] @@ r : r \in RangeDecls}

MagnitudeInput == [suffix |-> "magnitude", type |-> "DECIMAL"]
UnitInput(list) == [suffix |-> "unit", type |-> "CODED_TEXT", list |-> list]

QuantityInputs ==
    {<<MagnitudeInput, UnitInput(l)>> : l \in SeqsOf(UnitOptionKinds, 0, MaxOptions)}
    \cup {<<UnitInput(<<u>>), MagnitudeInput, UnitInput(<<v>>)>> :
            u \in UnitOptionKinds, v \in UnitOptionKinds}
    \cup { << >>, <<MagnitudeInput>>,
           <<MagnitudeInput, [suffix |-> "unit", type |-> "CODED_TEXT"]>>,
           <<MagnitudeInput, [suffix |-> "code", type |-> "CODED_TEXT",
                              list |-> << [value |-> <<"kPa">>,
                                           validation |-> [range |-> [min |-> 1]]] >>]>> }

QuantityNodes ==
    {NamedNode @@ [rmType |-> "DV_QUANTITY"]}
    \cup {NamedNode @@ [rmType |-> "DV_QUANTITY", inputs |-> i] : i \in QuantityInputs}

QuantityTemplates == {MkTemplate(<<node>>) : node \in QuantityNodes}

InitQuantity ==
    /\ web_template \in QuantityTemplates
    /\ preferred_lang = "en"
    /\ fhir_version \in {"R4", "R5"}
    /\ create_help_buttons = FALSE
    /\ FwdStart
    /\ RevIdle

\* the forward compiler on one quantity leaf, in the varieties of its units
SpecQuantity == InitQuantity /\ [][NextCompile]_vars

----------------------------------------------------------------------------
(* Claims on the extensions of a quantity leaf. *)

\* the options of the inputs tagged suffix "unit", in list order
RECURSIVE UnitOptionsOf(_)
UnitOptionsOf(inputs) ==
    IF inputs = << >> THEN << >>
    ELSE (IF /\ "suffix" \in DOMAIN Head(inputs) /\ Head(inputs).suffix = "unit"
             /\ "list" \in DOMAIN Head(inputs)
          THEN Head(inputs).list ELSE << >>)
         \o UnitOptionsOf(Tail(inputs))

DeclaredRange(unit) ==
    IF "validation" \in DOMAIN unit /\ "range" \in DOMAIN unit.validation
    THEN unit.validation.range ELSE EmptyDict
DeclaredMins(units) ==
    {DeclaredRange(units[n]).min :
        n \in {m \in 1..Len(units) : "min" \in DOMAIN DeclaredRange(units[m])}}
DeclaredMaxs(units) ==
    {DeclaredRange(units[n]).max :
        n \in {m \in 1..Len(units) : "max" \in DOMAIN DeclaredRange(units[m])}}

WrittenExtensions ==
    IF "extension" \in DOMAIN TheLeafItem THEN TheLeafItem.extension ELSE << >>
ExtensionsOf(url) == SelectSeq(WrittenExtensions, LAMBDA e : e.url = url)
UnitOptionUrl == "http://hl7.org/fhir/StructureDefinition/questionnaire-unitOption"
MinValueUrl == "http://hl7.org/fhir/StructureDefinition/minValue"
MaxValueUrl == "http://hl7.org/fhir/StructureDefinition/maxValue"

\* C16: the item of a quantity leaf has one questionnaire-unitOption
\* extension per option of the inputs tagged suffix unit, in list order, with
\* the system http://unitsofmeasure.org and the value of the option as code;
\* then at most one minValue with the smallest minimum any unit declares and
\* at most one maxValue with the largest maximum; a bound no unit declares is
\* omitted; with no unit options there is no extension field.
C16_UnitOptionsAndBounds ==
    Written =>
        LET units == UnitOptionsOf(LeafInputs)
            mins == DeclaredMins(units)
            maxs == DeclaredMaxs(units)
        IN /\ TheLeafItem.type = "quantity"
           /\ Len(ExtensionsOf(UnitOptionUrl)) = Len(units)
           /\ \A k \in 1..Len(units) :
                 /\ WrittenExtensions[k].url = UnitOptionUrl
                 /\ WrittenExtensions[k].valueCoding.system
                       = <<"http:", "/", "/", "unitsofmeasure.org">>
                 /\ WrittenExtensions[k].valueCoding.code = units[k].value
           /\ IF mins = {} THEN ExtensionsOf(MinValueUrl) = << >>
              ELSE /\ Len(ExtensionsOf(MinValueUrl)) = 1
                   /\ ExtensionsOf(MinValueUrl)[1].valueDecimal \in mins
                   /\ \A v \in mins : ExtensionsOf(MinValueUrl)[1].valueDecimal <= v
           /\ IF maxs = {} THEN ExtensionsOf(MaxValueUrl) = << >>
              ELSE /\ Len(ExtensionsOf(MaxValueUrl)) = 1
                   /\ ExtensionsOf(MaxValueUrl)[1].valueDecimal \in maxs
                   /\ \A v \in maxs : ExtensionsOf(MaxValueUrl)[1].valueDecimal >= v
           /\ Len(WrittenExtensions)
                 = Len(units) + (IF mins = {} THEN 0 ELSE 1) + (IF maxs = {} THEN 0 ELSE 1)
           /\ units = << >> => "extension" \notin DOMAIN TheLeafItem

\* two units, the first declaring the smaller minimum and the smaller
\* maximum: two unit options, minValue 0 and maxValue 300 are written
C16_Witness ==
    /\ Written
    /\ LET units == UnitOptionsOf(LeafInputs) IN
       /\ Len(units) = 2
       /\ DeclaredRange(units[1]) = [min |-> 0, max |-> 40]
       /\ DeclaredRange(units[2]) = [min |-> 5, max |-> 300]
    /\ Len(WrittenExtensions) = 4
    /\ WrittenExtensions[3] = [url |-> MinValueUrl, valueDecimal |-> 0]
    /\ WrittenExtensions[4] = [url |-> MaxValueUrl, valueDecimal |-> 300]

\* a quantity leaf with inputs and no unit option is written without extension
C16_NoUnitsWitness ==
    /\ Written
    /\ LeafInputs # << >>
    /\ UnitOptionsOf(LeafInputs) = << >>
    /\ "extension" \notin DOMAIN TheLeafItem

----------------------------------------------------------------------------
(* Claims on help items and texts. *)

\* the description of the node in the requested language, or the empty string
DescriptionOf(node) ==
    IF "localizedDescriptions" \in DOMAIN node
       /\ preferred_lang \in DOMAIN node.localizedDescriptions
    THEN node.localizedDescriptions[preferred_lang] ELSE << >>

SubItemsOf(item) == IF "item" \in DOMAIN item THEN item.item ELSE << >>

\* the sub-item is the help item of the item, with the text given
IsHelpItemOf(sub, item, text) ==
    /\ sub.type = "display"
    /\ sub.linkId = item.linkId \o <<"_", "helpText">>
    /\ sub.text = text
    /\ "extension" \in DOMAIN sub
    /\ Len(sub.extension) = 1
    /\ sub.extension[1].url
          = "http://hl7.org/fhir/StructureDefinition/questionnaire-itemControl"
    /\ sub.extension[1].valueCodeableConcept.coding[1].code = "help"

HasDisplaySubItem(item) ==
    \E k \in 1..Len(SubItemsOf(item)) : SubItemsOf(item)[k].type = "display"

\* the item of the node carries its help item exactly when help texts are
\* generated and the node has a description in the language
HelpAsDescribed(item, node) ==
    IF create_help_buttons /\ DescriptionOf(node) # << >>
    THEN \E k \in 1..Len(SubItemsOf(item)) :
            IsHelpItemOf(SubItemsOf(item)[k], item, DescriptionOf(node))
    ELSE ~HasDisplaySubItem(item)

\* C17: every item emitted for a node, leaf or group, carries a display
\* sub-item with the linkId of the item followed by _helpText, the description
\* as text and the help-button extension when help texts are generated and
\* the node has a description in the language, and no such sub-item otherwise.
C17_HelpItems ==
    Written =>
        \A n \in TemplateNodes : \A it \in WrittenItems :
            it.linkId = Slashed(n.ids) => HelpAsDescribed(it, n.node)

\* the same for the items of leaves
HelpItemsOfLeaves ==
    Written =>
        \A n \in TemplateNodes : \A it \in WrittenItems :
            (it.linkId = Slashed(n.ids) /\ "children" \notin DOMAIN n.node)
               => HelpAsDescribed(it, n.node)

\* what the code does for groups: the item of a group never has a help item
NoHelpItemOfGroups ==
    Written =>
        \A n \in TemplateNodes : \A it \in WrittenItems :
            (it.linkId = Slashed(n.ids) /\ "children" \in DOMAIN n.node)
               => ~HasDisplaySubItem(it)

\* a group with a description is written, its leaf with the help item
HelpItemsWitness ==
    /\ Written
    /\ create_help_buttons
    /\ \E n \in TemplateNodes : \E it \in WrittenItems :
          /\ it.linkId = Slashed(n.ids)
          /\ "children" \in DOMAIN n.node
          /\ DescriptionOf(n.node) # << >>
          /\ Len(it.item) = 1
          /\ IsHelpItemOf(it.item[1].item[1], it.item[1], DescriptionOf(n.node.children[1]))

----------------------------------------------------------------------------
(* Templates of one node, in the varieties of its names. *)

NameDecls == {EmptyDict, [name |-> <<"Plain", " ", "name">>], [name |-> << >>]}
LocalizedNameDecls == {EmptyDict, [localizedName |-> <<"Default", " ", "name">>]}
LocalizedNamesDecls ==
    { EmptyDict,
      [localizedNames |-> [en |-> <<"English", " ", "name">>]],
      [localizedNames |-> [en |-> <<"English", " ", "name">>, de |-> <<"Deutscher", " ", "Name">>]],
      [localizedNames |-> [en |-> << >>]] }
DescriptionDecls ==
    { EmptyDict,
      [localizedDescriptions |-> [en |-> <<"About", " ", "it">>]],
      [localizedDescriptions |-> [de |-> <<"Dazu">>, en |-> << >>]] }

NamingNodes ==
    LET leaf(n, l, ls, d) == ((([rmType |-> "DV_TEXT"] @@ n) @@ l) @@ ls) @@ d
        group(n, l, ls, d) ==
            ((([rmType |-> "CLUSTER", children |-> << leaf(n, l, ls, d) >>] @@ n) @@ l) @@ ls) @@ d
    IN {leaf(n, l, ls, d) : n \in NameDecls, l \in LocalizedNameDecls,
                            ls \in LocalizedNamesDecls, d \in DescriptionDecls}
       \cup {group(n, l, ls, d) : n \in NameDecls, l \in LocalizedNameDecls,
                                  ls \in LocalizedNamesDecls, d \in DescriptionDecls}

NamingTemplates == {MkTemplate(<<node>>) : node \in NamingNodes}

InitNames ==
    /\ web_template \in NamingTemplates
    /\ preferred_lang \in {"en", "de", "fr"}
    /\ fhir_version = "R4"
    /\ create_help_buttons \in BOOLEAN
    /\ FwdStart
    /\ RevIdle

\* the forward compiler on one node, in the varieties of its names
SpecNames == InitNames /\ [][NextCompile]_vars

\* the localizedNames entry of the node for the language, when there is one
HasNameEntry(node) ==
    "localizedNames" \in DOMAIN node /\ preferred_lang \in DOMAIN node.localizedNames

NonEmpty(node, key) == key \in DOMAIN node /\ node[key] # << >>

----------------------------------------------------------------------------
(* Templates of two leaves, in the varieties of their type tags. *)

TypeTags ==
    {"CLUSTER", "DV_QUANTITY", "DV_DATE_TIME", "DV_COUNT", "DV_DURATION", "DV_EHR_URI",
     "DV_CODED_TEXT", "dv_coded_text", "DV_TEXT", "DV_ORDINAL", "FOO", ""}
TypeTagDecls == {EmptyDict} \cup {[rmType |-> t] : t \in TypeTags}

TagInputDecls ==
    { EmptyDict,
      [inputs |-> << [type |-> "CODED_TEXT", list |-> CodedOptions] >>],
      [inputs |-> << [type |-> "CODED_TEXT", list |-> CodedOptions, listOpen |-> TRUE] >>] }

TaggedNodes == {(NamedNode @@ t) @@ i : t \in TypeTagDecls, i \in TagInputDecls}

TypeTemplates == {MkTemplate(<<a, b>>) : a \in TaggedNodes, b \in TaggedNodes}

InitTypes ==
    /\ web_template \in TypeTemplates
    /\ preferred_lang = "en"
    /\ fhir_version \in {"R4", "R5"}
    /\ create_help_buttons = FALSE
    /\ FwdStart
    /\ RevIdle

\* the forward compiler on two leaves, in the varieties of their type tags
SpecTypes == InitTypes /\ [][NextCompile]_vars

\* the tags of the direct mapping table
DirectlyMapped ==
    {"COMPOSITION", "CLUSTER", "SECTION", "EVENT_CONTEXT", "DV_QUANTITY", "DV_DATE_TIME",
     "DV_DATE", "DV_TIME", "DV_DURATION", "DV_COUNT", "DV_BOOLEAN", "DV_MULTIMEDIA",
     "DV_URI", "DV_EHR_URI"}

\* the type tag of the node in upper case, empty when it has none
TagOf(node) == IF "rmType" \in DOMAIN node THEN Upper(node.rmType) ELSE ""

\* C19: the item of a leaf whose type tag (case apart) is neither in the
\* direct mapping table nor the coded-text type, a missing or empty tag
\* included, is written with the kind text, under either version.
C19_UnknownTagIsText ==
    /\ ferror = "none"
    /\ Written =>
          \A n \in TemplateNodes : \A it \in WrittenItems :
              (/\ it.linkId = Slashed(n.ids)
               /\ TagOf(n.node) \notin DirectlyMapped \cup {"DV_CODED_TEXT"})
              => it.type = "text"

\* under R5 a leaf without tag and a leaf of a tag the table does not have
\* are written with the kind text
C19_Witness ==
    /\ Written
    /\ fhir_version = "R5"
    /\ "rmType" \notin DOMAIN web_template.tree.children[1]
    /\ TagOf(web_template.tree.children[2]) = "DV_ORDINAL"
    /\ output_file.item[1].item[1].type = "text"
    /\ output_file.item[1].item[2].type = "text"

SameTag(a, b) ==
    ("rmType" \in DOMAIN a <=> "rmType" \in DOMAIN b)
    /\ ("rmType" \in DOMAIN a => a.rmType = b.rmType)

\* C20 (as stated): two nodes that carry the same type tag and are mapped
\* under the same version get the same item kind.
C20_KindByTagAndVersion ==
    (Written /\ SameTag(web_template.tree.children[1], web_template.tree.children[2]))
    => output_file.item[1].item[1].type = output_file.item[1].item[2].type

\* C20 (amended): two nodes that carry the same type tag, agree on whether an
\* input definition marks its option list open and are mapped under the same
\* version get the same item kind.
C20_KindByTagOpenListAndVersion ==
    (/\ Written
     /\ SameTag(web_template.tree.children[1], web_template.tree.children[2])
     /\ MarksListOpen(web_template.tree.children[1])
           <=> MarksListOpen(web_template.tree.children[2]))
    => output_file.item[1].item[1].type = output_file.item[1].item[2].type

\* two coded leaves, one without inputs and one with a closed list, are
\* written with the same kind
C20_Witness ==
    /\ Written
    /\ TagOf(web_template.tree.children[1]) = "DV_CODED_TEXT"
    /\ TagOf(web_template.tree.children[2]) = "DV_CODED_TEXT"
    /\ "inputs" \notin DOMAIN web_template.tree.children[1]
    /\ "inputs" \in DOMAIN web_template.tree.children[2]
    /\ ~MarksListOpen(web_template.tree.children[2])
    /\ output_file.item[1].item[1].type = "choice"
    /\ output_file.item[1].item[2].type = "choice"


----------------------------------------------------------------------------
(* Uniqueness of linkIds in one document. *)

\* the linkIds of a list of items and of all the items below them, in the
\* order of the document, one entry for every item
RECURSIVE LinkIdsIn(_)
LinkIdsIn(items) ==
    IF items = << >> THEN << >>
    ELSE <<Head(items).linkId>> \o LinkIdsIn(Get(Head(items), "item", << >>))
                                \o LinkIdsIn(Tail(items))

\* C21: in one compiled questionnaire no two items (group, leaf or help
\* display item, at any depth) carry the same linkId, the same local ids
\* recurring below different parents included. Templates are web templates:
\* the children of one node have distinct ids.
C21_LinkIdsUnique ==
    Written =>
        LET ids == LinkIdsIn(output_file.item)
        IN \A i, j \in 1..Len(ids) : i # j => ids[i] # ids[j]

\* a questionnaire is written in which the local id a is that of a leaf below
\* the group a and of a leaf below the group b, both with their help items
C21_Witness ==
    /\ Written
    /\ {<<"sample", "_", "root", "/", "a", "/", "a">>,
        <<"sample", "_", "root", "/", "b", "/", "a">>,
        <<"sample", "_", "root", "/", "a", "/", "a", "_", "helpText">>,
        <<"sample", "_", "root", "/", "b", "/", "a", "_", "helpText">>}
          \subseteq WrittenLinkIds


----------------------------------------------------------------------------
(* An unsupported target version. *)

UnsupportedVersion == fhir_version \notin {"R4", "R5"}

\* C22: a call with a target version other than R4 or R5 raises an error
\* before any child of the template root is processed, and no document is
\* built, written or returned by that call.
C22_UnsupportedVersionFailsFast ==
    /\ [](UnsupportedVersion =>
             /\ fpc \in {"call", "raised"}
             /\ child_idx = 0
             /\ cardinality_map = << >>
             /\ questionnaire = NoDocument
             /\ output_file = NoDocument)
    /\ [][(UnsupportedVersion /\ fpc = "call")
             => (fpc' = "raised" /\ ferror' = "ValueError")]_vars

\* the call for R3 has raised, on a template whose root has children of which
\* the first would yield an item
C22_Witness ==
    /\ fhir_version = "R3"
    /\ fpc = "raised"
    /\ ferror = "ValueError"
    /\ Len(Get(web_template.tree, "children", << >>)) = MaxChildren
    /\ ~IsContextual(web_template.tree.children[1])
    /\ "children" \notin DOMAIN web_template.tree.children[1]


----------------------------------------------------------------------------
(* A session of calls on the loaded module. *)

\* calls of one session
MaxCalls == 3

\* the nodes handed to process_webtemplate_node directly
DirectNodes ==
    {Labelled(ShapeLeaf(FALSE), <<"a">>),
     Labelled(ShapeLeaf(FALSE), <<"b">>),
     Labelled(ShapeGroup(FALSE, <<ShapeLeaf(FALSE), ShapeLeaf(TRUE)>>), <<"g">>)}

\* the templates handed to convert_webtemplate_to_fhir_questionnaire_json
SessionTemplates ==
    {MkTemplate(<<ShapeLeaf(FALSE)>>),
     MkTemplate(<<ShapeGroup(FALSE, <<ShapeLeaf(FALSE)>>), ShapeLeaf(TRUE)>>)}

NoCallRunning == fpc \in {"idle", "returned", "raised"}

\* lines 18-27: convert_webtemplate_to_fhir_questionnaire_json is entered with
\* new arguments and a new output path; its locals are not bound yet
CallConvert ==
    /\ NoCallRunning
    /\ calls_made < MaxCalls
    /\ web_template' \in SessionTemplates
    /\ preferred_lang' \in {"en", "de"}
    /\ fhir_version' = "R4"
    /\ create_help_buttons' = TRUE
    /\ fpc' = "call"
    /\ questionnaire' = NoDocument
    /\ child_idx' = 0
    /\ output_file' = NoDocument
    /\ ferror' = "none"
    /\ calls_made' = calls_made + 1
    /\ UNCHANGED <<cardinality_map, default_cardinality_map, node_call, node_result>>
    /\ UNCHANGED rev_vars

\* line 133: process_webtemplate_node(node, preferred_lang, fhir_version) called
\* with parent_ids and cardinality_map left to their defaults: parent_ids is
\* None and becomes [] (lines 140-141), cardinality_map is the one OrderedDict
\* of the function's defaults, written at line 179
CallNode ==
    /\ NoCallRunning
    /\ calls_made < MaxCalls
    /\ \E node \in DirectNodes, lang \in {"en", "de"} :
          LET out == ProcessWebtemplateNode(node, lang, "R4", << >>,
                                            default_cardinality_map, TRUE)
          IN /\ node_call' = [node |-> node, preferred_lang |-> lang]
             /\ node_result' = out.item
             /\ default_cardinality_map' = out.cardinality_map
    /\ calls_made' = calls_made + 1
    /\ UNCHANGED <<web_template, preferred_lang, fhir_version, create_help_buttons, fpc,
                   questionnaire, child_idx, output_file, cardinality_map, ferror>>
    /\ UNCHANGED rev_vars

NextCalls == CallConvert \/ CallNode \/ FwdPrepare \/ FwdChild \/ FwdWrite

InitCalls == FwdIdle /\ RevIdle

\* up to MaxCalls calls of the forward compiler's two functions, one after
\* the other, in any order
SpecCalls == InitCalls /\ [][NextCalls]_vars


\* the keys of an OrderedDict held as a list of entries
KeysOf(cmap) == {cmap[n][1] : n \in 1..Len(cmap)}

\* the identifiers constructed in processing a node below the ids given: the
\* node's and those of the nodes below it, up to the contextual ones, which
\* return before any identifier is made
ConstructedFor(node, parent_ids) ==
    IF IsContextual(node) THEN {}
    ELSE {Slashed(Append(parent_ids, node.id))}
         \cup {Slashed(n.ids) : n \in {m \in NodesBelow(node, Append(parent_ids, node.id), FALSE) :
                                         ~m.contextual}}

\* the document the running arguments give in a first call, the module just loaded
FirstCallDocument ==
    [NewQuestionnaire EXCEPT
        !.item[1].item = ProcessChildren(Get(root_node, "children", << >>), 1,
                                         preferred_lang, fhir_version,
                                         <<root_node.id>>, << >>,
                                         create_help_buttons).subitems]

\* C23: no call leaves state a later call can observe. Every call, of
\* convert_webtemplate_to_fhir_questionnaire_json or of
\* process_webtemplate_node, after any calls before it, gives the result it
\* gives as the first call, and the cardinality index filled by a call holds
\* only the identifiers constructed in that call.
C23_NoStateAcrossCalls ==
    /\ Written =>
          /\ output_file = FirstCallDocument
          /\ KeysOf(cardinality_map)
                \subseteq UNION {ConstructedFor(root_node.children[c], <<root_node.id>>) :
                                   c \in 1..Len(Get(root_node, "children", << >>))}
    /\ node_call # NoDocument =>
          /\ node_result = ProcessWebtemplateNode(node_call.node, node_call.preferred_lang,
                                                   "R4", << >>, << >>, TRUE).item
          /\ KeysOf(default_cardinality_map) \subseteq ConstructedFor(node_call.node, << >>)

\* the results alone: every call gives the result of a first call
ResultsOfFirstCall ==
    /\ Written => output_file = FirstCallDocument
    /\ node_call # NoDocument =>
          node_result = ProcessWebtemplateNode(node_call.node, node_call.preferred_lang,
                                               "R4", << >>, << >>, TRUE).item

\* the index of a document's compile alone
IndexOfDocumentIsItsOwn ==
    Written =>
        KeysOf(cardinality_map)
           \subseteq UNION {ConstructedFor(root_node.children[c], <<root_node.id>>) :
                              c \in 1..Len(Get(root_node, "children", << >>))}

\* a document is written by the last call of a session that began with two
\* direct calls
SessionWitness ==
    /\ Written
    /\ calls_made = MaxCalls
    /\ Len(default_cardinality_map) > 1
    /\ cardinality_map # << >>


----------------------------------------------------------------------------
(* One document per requested language. *)

Languages == {"en", "de", "fr"}

\* descriptions in no language, in one, in two of the languages
LanguageDescriptions ==
    {EmptyDict,
     [localizedDescriptions |-> [en |-> <<"About", " ", "element">>]],
     [localizedDescriptions |-> [en |-> <<"About", " ", "element">>,
                                 de |-> <<"Zum", " ", "Element">>]]}

\* no default, the code of an option, the English label of an option
LanguageDefaults ==
    {EmptyDict, [defaultValue |-> <<"option1">>], [defaultValue |-> <<"Option", " ", "1">>]}

\* a coded leaf, a quantity leaf and a cluster above a coded leaf
LanguageNodes ==
    LET named == [name |-> <<"Element">>,
                  localizedNames |-> [en |-> <<"Element">>, de |-> <<"Element", " ", "de">>],
                  min |-> 1, max |-> -1]
        coded(d, v) == (named @@ d) @@
                       [rmType |-> "DV_CODED_TEXT",
                        inputs |-> << [suffix |-> "code", type |-> "CODED_TEXT",
                                       list |-> CodedOptions] @@ v >>]
    IN {coded(d, v) : d \in LanguageDescriptions, v \in LanguageDefaults}
       \cup {(QuantityNode @@ d) : d \in LanguageDescriptions}
       \cup {((named @@ d) @@ [rmType |-> "CLUSTER", children |-> <<coded(d, EmptyDict)>>])
               : d \in LanguageDescriptions}

LanguageTemplates == {MkTemplate(<<node>>) : node \in LanguageNodes}

\* lines 596-606, and app.py lines 61-73: the next turn of the loop over the
\* requested languages calls the conversion again for the same template and
\* version with another output path; the file written before stays
NextLanguage ==
    /\ fpc = "returned"
    /\ calls_made + 1 < MaxCalls
    /\ preferred_lang' \in Languages \ {preferred_lang}
    /\ fpc' = "call"
    /\ questionnaire' = NoDocument
    /\ child_idx' = 0
    /\ calls_made' = calls_made + 1
    /\ UNCHANGED <<web_template, fhir_version, create_help_buttons, output_file,
                   cardinality_map, ferror, default_cardinality_map, node_call, node_result>>
    /\ UNCHANGED rev_vars

NextLanguages == NextLanguage \/ FwdPrepare \/ FwdChild \/ FwdWrite

InitLanguages ==
    /\ web_template \in LanguageTemplates
    /\ preferred_lang \in Languages
    /\ fhir_version \in {"R4", "R5"}
    /\ create_help_buttons \in BOOLEAN
    /\ FwdStart
    /\ RevIdle

\* one template compiled for up to MaxCalls languages, one after the other
SpecLanguages == InitLanguages /\ [][NextLanguages]_vars


\* an answer option without the display label of its coding
OptionStructure(answer_option) ==
    IF "valueCoding" \in DOMAIN answer_option
    THEN [k \in DOMAIN answer_option |->
             IF k = "valueCoding"
             THEN [c \in (DOMAIN answer_option.valueCoding) \ {"display"} |->
                      answer_option.valueCoding[c]]
             ELSE answer_option[k]]
    ELSE answer_option

\* an item without its text, its sub-items and answer options likewise
RECURSIVE ItemStructure(_)
ItemStructure(item) ==
    [k \in (DOMAIN item) \ {"text"} |->
        IF k = "item" THEN [n \in 1..Len(item.item) |-> ItemStructure(item.item[n])]
        ELSE IF k = "answerOption"
             THEN [n \in 1..Len(item.answerOption) |-> OptionStructure(item.answerOption[n])]
        ELSE item[k]]

\* a document without its text fields
DocumentStructure(doc) ==
    [k \in (DOMAIN doc) \ {"language", "title", "name", "description"} |->
        IF k = "item" THEN [n \in 1..Len(doc.item) |-> ItemStructure(doc.item[n])]
        ELSE doc[k]]

\* the document of one language is written while that of the language
\* before it is there
WritesNextDocument == fpc = "walk" /\ fpc' = "returned" /\ output_file # NoDocument

\* C24 as stated: for one template and one version the documents of any two
\* languages have the same item tree (linkIds, order, nesting, types,
\* required and repeats, option codes and systems, extensions) and differ
\* only in text fields and in the display labels of options.
C24_SameStructureInEveryLanguage ==
    [][WritesNextDocument => DocumentStructure(output_file') = DocumentStructure(output_file)]_vars

\* an answer option without its display label and its initialSelected marker
OptionFrame(answer_option) ==
    IF "valueCoding" \in DOMAIN answer_option
    THEN [k \in (DOMAIN answer_option) \ {"initialSelected"} |->
             IF k = "valueCoding"
             THEN [c \in (DOMAIN answer_option.valueCoding) \ {"display"} |->
                      answer_option.valueCoding[c]]
             ELSE answer_option[k]]
    ELSE answer_option

\* an item without its text and its help items, the items below it likewise
RECURSIVE ItemFrame(_)
ItemFrame(item) ==
    LET below == SelectSeq(Get(item, "item", << >>), LAMBDA sub : ~IsHelp(sub))
        keys == ((DOMAIN item) \ {"text", "item"})
                   \cup (IF below # << >> THEN {"item"} ELSE {})
    IN [k \in keys |->
           IF k = "item" THEN [n \in 1..Len(below) |-> ItemFrame(below[n])]
           ELSE IF k = "answerOption"
                THEN [n \in 1..Len(item.answerOption) |-> OptionFrame(item.answerOption[n])]
           ELSE item[k]]

\* a document without its text fields and its date
DocumentFrame(doc) ==
    [k \in (DOMAIN doc) \ {"language", "title", "name", "description", "date"} |->
        IF k = "item" THEN [n \in 1..Len(doc.item) |-> ItemFrame(doc.item[n])]
        ELSE doc[k]]

\* C24, amended: for one template and one version the documents of any two
\* languages have, help display items and initialSelected markers set aside,
\* the same item tree (linkIds, order, nesting, types, required and repeats,
\* option codes and systems, extensions), and differ otherwise only in text
\* fields, the date and the display labels of options.
C24_SameFrameInEveryLanguage ==
    [][WritesNextDocument => DocumentFrame(output_file') = DocumentFrame(output_file)]_vars

\* the documents of two languages are both built, the second not yet
\* written, and they differ in a help item or an initialSelected marker
C24_Witness ==
    /\ fpc = "walk"
    /\ child_idx = Len(Get(root_node, "children", << >>))
    /\ output_file # NoDocument
    /\ output_file.language # questionnaire.language
    /\ DocumentStructure(questionnaire) # DocumentStructure(output_file)
    /\ questionnaire.item[1].item # << >>


----------------------------------------------------------------------------
(* Scalar answers. *)

ScalarKinds == {"valueString", "valueBoolean", "valueInteger", "valueDecimal",
                "valueDate", "valueDateTime", "valueTime", "valueUri"}

\* the keys of the record that are a facet of the path: the path, "|", a name
FacetKeysOf(p) ==
    {key \in DOMAIN SingleRecord :
        /\ Len(key) = Len(p) + 2
        /\ SubSeq(key, 1, Len(p) + 1) = p \o <<"|">>}

\* C25: an answer of a scalar kind (valueString, valueBoolean, valueInteger,
\* valueDecimal, valueDate, valueDateTime, valueTime, valueUri) at the
\* resolved path p writes exactly one key, p without a facet suffix, holding
\* the value as it stands in the answer; a valueReference answer writes the
\* single key p, holding its reference string (None when the reference
\* carries no reference string).
C25_ScalarsWriteOneKey ==
    pc = "returned" =>
        \A a \in 1..Len(answer_calls) :
            LET call == answer_calls[a]
                p == call.path
            IN /\ \A kind \in ScalarKinds :
                    kind \in DOMAIN call.answer =>
                       /\ Len(call.writes) = 1
                       /\ KeysWritten(call) = {p}
                       /\ p \in DOMAIN SingleRecord
                       /\ SingleRecord[p] = call.answer[kind]
                       /\ FacetKeysOf(p) = {}
               /\ "valueReference" \in DOMAIN call.answer =>
                       /\ Len(call.writes) = 1
                       /\ KeysWritten(call) = {p}
                       /\ p \in DOMAIN SingleRecord
                       /\ SingleRecord[p] =
                             (IF "reference" \in DOMAIN call.answer.valueReference
                              THEN call.answer.valueReference.reference ELSE NoneValue)
                       /\ FacetKeysOf(p) = {}

\* a boolean and a reference that carries a reference string and a display
\* have been written as the two answers of one item, under the paths with
\* the indexes of the answers
C25_Witness ==
    /\ pc = "returned"
    /\ \E a, b \in 1..Len(answer_calls) :
          /\ "valueBoolean" \in DOMAIN answer_calls[a].answer
          /\ SingleRecord[answer_calls[a].path] = <<"True">>
          /\ "valueReference" \in DOMAIN answer_calls[b].answer
          /\ "display" \in DOMAIN answer_calls[b].answer.valueReference
          /\ SingleRecord[answer_calls[b].path] = <<"Patient", "/", "1">>
          /\ answer_calls[a].item_path = answer_calls[b].item_path


----------------------------------------------------------------------------
(* Groups without sub-items. *)

HasSubItems(item) == "item" \in DOMAIN item /\ item.item # << >>

\* C26: no group item of a compiled questionnaire has an empty list of
\* sub-items, the synthetic root group included: when every child of the
\* template root is contextual or pruned, or the root has no children, the
\* document holds no empty root group.
C26_NoEmptyGroup ==
    Written => \A it \in WrittenItems : it.type = "group" => HasSubItems(it)

\* what holds: every group below the root group has sub-items
GroupsBelowRootHaveSubItems ==
    Written =>
        \A it \in ItemsBelow(output_file.item[1].item) : it.type = "group" => HasSubItems(it)

\* a document is written with a group below the root group
GroupsBelowRootWitness ==
    /\ Written
    /\ \E it \in ItemsBelow(output_file.item[1].item) : it.type = "group"


----------------------------------------------------------------------------
(* A compiled questionnaire, filled in once, and decompiled. *)

\* the answers a form gives to the leaves
RoundTripAnswers ==
    { [valueString |-> <<"text">>],
      [valueCoding |-> [code |-> <<"option1">>, display |-> <<"Option", " ", "1">>]] }

\* the items of a response to the items given: every item once, in the
\* order and nesting of the questionnaire, every leaf with the one answer;
\* display items are listed without an answer, or left out
RECURSIVE ResponseItems(_, _, _)
ResponseItems(items, answer, with_display) ==
    IF items = << >> THEN << >>
    ELSE LET item == Head(items)
             below == ResponseItems(Get(item, "item", << >>), answer, with_display)
             mine == IF item.type = "display"
                     THEN (IF with_display THEN << MkItem(item.linkId, << >>, << >>) >>
                           ELSE << >>)
                     ELSE IF item.type = "group"
                          THEN << MkItem(item.linkId, << >>, below) >>
                     ELSE << MkItem(item.linkId, <<answer>>, below) >>
         IN mine \o ResponseItems(Tail(items), answer, with_display)

\* the written questionnaire is served under Url1, a response to it is filled
\* in, and convert_fhir_to_openehr_flat is called with it (lines 43-46)
FillResponse ==
    /\ fpc = "returned"
    /\ pc = "idle"
    /\ \E answer \in RoundTripAnswers, with_display \in BOOLEAN :
          bundle_json' = MkResponse(Url1, ResponseItems(output_file.item, answer, with_display))
    /\ server' = (Url1 :> output_file)
    /\ ctx_setting' = <<"238">>
    /\ ctx_territory' = <<"CH">>
    /\ default_locale' = LocaleUS
    /\ pc' = "call"
    /\ UNCHANGED <<idx, practitioner_id, encounter_id, compositions, error, item_calls,
                   answer_calls>>
    /\ UNCHANGED <<fwd_vars, mod_vars>>

NextRoundTrip == FwdPrepare \/ FwdChild \/ FwdWrite \/ FillResponse \/ ProcessSingle

\* a leaf, a contextual leaf, and the groups of leaves
RoundTripShapes ==
    Shapes0 \cup {ShapeGroup(FALSE, kids) : kids \in SeqsOf({ShapeLeaf(FALSE)}, 1, MaxChildren)}

\* up to MaxChildren children of the root, each a leaf or a group of leaves;
\* and the chains of up to MaxDepth nested groups
RoundTripTemplates ==
    {MkTemplate(children) : children \in SeqsOf(RoundTripShapes, 0, MaxChildren)}
    \cup {MkTemplate(<<g>>) : g \in UNION {Chains(d) : d \in 1..MaxDepth}}

InitRoundTrip ==
    /\ web_template \in RoundTripTemplates
    /\ preferred_lang = "en"
    /\ fhir_version = "R4"
    /\ create_help_buttons \in BOOLEAN
    /\ FwdStart
    /\ RevIdle

\* a template compiled, the questionnaire filled in, the response decompiled
SpecRoundTrip == InitRoundTrip /\ [][NextRoundTrip]_vars

\* the leaves of the template that yield an item
YieldingLeaves == {n \in TemplateNodes : ~n.contextual /\ "children" \notin DOMAIN n.node}

Decompiled == Written /\ pc = "returned"

\* C27: for a response with the linkIds and nesting of a compiled
\* questionnaire, every item once and every leaf with one answer, the path
\* built for each answered leaf is that item's linkId, the ids of the template
\* from the root to the leaf joined with "/"; distinct answered leaves write
\* distinct keys.
C27_PathIsLinkId ==
    Decompiled =>
        /\ \A c \in 1..Len(item_calls) :
              LET item == item_calls[c].items[item_calls[c].pos]
              IN "answer" \in DOMAIN item => item_calls[c].path = item.linkId
        /\ Len(answer_calls) = Cardinality(YieldingLeaves)
        /\ {answer_calls[a].path : a \in 1..Len(answer_calls)}
              = {Slashed(n.ids) : n \in YieldingLeaves}
        /\ \A a, b \in 1..Len(answer_calls) :
              a # b => KeysWritten(answer_calls[a]) \cap KeysWritten(answer_calls[b]) = {}
        /\ \A a \in 1..Len(answer_calls) :
              KeysWritten(answer_calls[a]) \subseteq DOMAIN SingleRecord

\* the leaves a below the groups a and b are both answered, and the record
\* holds a key for each
C27_Witness ==
    /\ Decompiled
    /\ {<<"sample", "_", "root", "/", "a", "/", "a">>,
        <<"sample", "_", "root", "/", "b", "/", "a">>}
          \subseteq (DOMAIN SingleRecord)
    /\ \E c \in 1..Len(item_calls) :
          "answer" \notin DOMAIN item_calls[c].items[item_calls[c].pos]
          /\ "item" \notin DOMAIN item_calls[c].items[item_calls[c].pos]

============================================================================
